---- MODULE Spec2Model ----
(***************************************************************************)
(* Model of the stock purchase pipeline of stock-trading-platform-api:     *)
(*   StocksService.getStockBySymbol / buyStock / updateUserPortfolio and   *)
(*   TransactionsService.updateTransactionStatus.                          *)
(*                                                                         *)
(* Prices are JavaScript numbers (Prisma Float, IEEE-754 binary64).  A     *)
(* price that enters the program as a decimal literal with two digits is   *)
(* kept in the model as its number of cents and converted to the nearest   *)
(* binary64 value (FromCents) wherever the code does arithmetic on it;     *)
(* computed values (averagePrice, totalAmount, tolerance) are binary64     *)
(* values [m, e] meaning m * 2^e with a 53-bit mantissa m.  Mantissas      *)
(* exceed TLC's 32-bit integers, so they are little-endian sequences of    *)
(* base-2^15 limbs.                                                        *)
(***************************************************************************)
EXTENDS Integers, Sequences, FiniteSets, TLC

(***************************************************************************)
(* Natural numbers of arbitrary size (limb sequences, no leading zeros).   *)
(***************************************************************************)
LimbBits == 15
Base == 32768

Pow2(n) == 2 ^ n

RECURSIVE BNorm(_)
BNorm(a) == IF a = <<>> THEN <<>>
            ELSE IF a[Len(a)] = 0 THEN BNorm(SubSeq(a, 1, Len(a) - 1)) ELSE a

RECURSIVE BFromInt(_)
BFromInt(n) == IF n = 0 THEN <<>> ELSE <<n % Base>> \o BFromInt(n \div Base)

Limb(a, i) == IF i <= Len(a) THEN a[i] ELSE 0

RECURSIVE BAddC(_, _, _, _)
BAddC(a, b, i, carry) ==
    IF i > Len(a) /\ i > Len(b)
    THEN (IF carry = 0 THEN <<>> ELSE <<carry>>)
    ELSE LET s == Limb(a, i) + Limb(b, i) + carry
         IN  <<s % Base>> \o BAddC(a, b, i + 1, s \div Base)

BAdd(a, b) == BAddC(a, b, 1, 0)

RECURSIVE BSubC(_, _, _, _)
BSubC(a, b, i, borrow) ==
    IF i > Len(a) THEN <<>>
    ELSE LET d == Limb(a, i) - Limb(b, i) - borrow
         IN  IF d < 0 THEN <<d + Base>> \o BSubC(a, b, i + 1, 1)
                      ELSE <<d>> \o BSubC(a, b, i + 1, 0)

\* a - b for a >= b
BSub(a, b) == BNorm(BSubC(a, b, 1, 0))

RECURSIVE BCmpAt(_, _, _)
BCmpAt(a, b, i) ==
    IF i = 0 THEN 0
    ELSE IF a[i] > b[i] THEN 1
    ELSE IF a[i] < b[i] THEN -1
    ELSE BCmpAt(a, b, i - 1)

\* -1, 0, 1 as a < b, a = b, a > b
BCmp(a, b) ==
    IF Len(a) > Len(b) THEN 1
    ELSE IF Len(a) < Len(b) THEN -1
    ELSE BCmpAt(a, b, Len(a))

RECURSIVE BMulSmallC(_, _, _, _)
BMulSmallC(a, k, i, carry) ==
    IF i > Len(a)
    THEN (IF carry = 0 THEN <<>> ELSE <<carry>>)
    ELSE LET s == a[i] * k + carry
         IN  <<s % Base>> \o BMulSmallC(a, k, i + 1, s \div Base)

\* a * k for 0 <= k < Base
BMulSmall(a, k) == BNorm(BMulSmallC(a, k, 1, 0))

Zeros(n) == [i \in 1..n |-> 0]

RECURSIVE BMulAt(_, _, _)
BMulAt(a, b, i) ==
    IF i > Len(b) THEN <<>>
    ELSE BAdd(BNorm(Zeros(i - 1) \o BMulSmall(a, b[i])), BMulAt(a, b, i + 1))

BMul(a, b) == BNorm(BMulAt(a, b, 1))

\* <<quotient limbs (most significant first, unnormalised), remainder>>
RECURSIVE BDivSmallAt(_, _, _, _)
BDivSmallAt(a, k, i, rem) ==
    IF i = 0 THEN [q |-> <<>>, r |-> rem]
    ELSE LET cur  == rem * Base + a[i]
             rest == BDivSmallAt(a, k, i - 1, cur % k)
         IN  [q |-> rest.q \o <<cur \div k>>, r |-> rest.r]

\* a div k and a mod k for 0 < k < Base
BDivSmall(a, k) == BNorm(BDivSmallAt(a, k, Len(a), 0).q)
BModSmall(a, k) == BDivSmallAt(a, k, Len(a), 0).r

BShl(a, n) ==
    IF a = <<>> THEN <<>>
    ELSE Zeros(n \div LimbBits) \o BMulSmall(a, Pow2(n % LimbBits))

BShr(a, n) ==
    LET w == n \div LimbBits
    IN  IF w >= Len(a) THEN <<>>
        ELSE BDivSmall(SubSeq(a, w + 1, Len(a)), Pow2(n % LimbBits))

RECURSIVE IntBitLen(_)
IntBitLen(n) == IF n = 0 THEN 0 ELSE 1 + IntBitLen(n \div 2)

BBitLen(a) == IF a = <<>> THEN 0
              ELSE LimbBits * (Len(a) - 1) + IntBitLen(a[Len(a)])

BIsOdd(a) == a # <<>> /\ a[1] % 2 = 1

(***************************************************************************)
(* IEEE-754 binary64 values >= 0 (no subnormals, infinities or NaN occur   *)
(* for the amounts of the model): [m |-> mantissa, e |-> exponent], the    *)
(* mantissa having exactly MantBits bits, or zero.                         *)
(***************************************************************************)
MantBits == 53

FZero == [m |-> <<>>, e |-> 0]

\* round-to-nearest, ties-to-even of m * 2^e (+ a non-zero tail iff sticky)
FRound(m, e, sticky) ==
    LET L == BBitLen(m)
    IN  IF L = 0 THEN FZero
        ELSE IF L <= MantBits
        THEN [m |-> BShl(m, MantBits - L), e |-> e - (MantBits - L)]
        ELSE LET s     == L - MantBits
                 t     == BShr(m, s - 1)
                 guard == BIsOdd(t)
                 q     == BDivSmall(t, 2)
                 low   == sticky \/ BShl(t, s - 1) # m
                 up    == guard /\ (low \/ BIsOdd(q))
                 r     == IF up THEN BAdd(q, <<1>>) ELSE q
             IN  IF BBitLen(r) > MantBits
                 THEN [m |-> BDivSmall(r, 2), e |-> e + s + 1]
                 ELSE [m |-> r, e |-> e + s]

FFromInt(n) == FRound(BFromInt(n), 0, FALSE)

\* the binary64 value of the quotient of two positive integers n / d, d < Base
FFromRatio(n, d) ==
    LET num == BShl(BFromInt(n), 75)
    IN  FRound(BDivSmall(num, d), -75, BModSmall(num, d) # 0)

\* the number a decimal literal "c/100" (two digits after the point) parses to
FromCents(c) == FFromRatio(c, 100)

Min(a, b) == IF a < b THEN a ELSE b

AlignM(x, e) == BShl(x.m, x.e - e)

FCmp(x, y) ==
    IF x.m = <<>> /\ y.m = <<>> THEN 0
    ELSE IF x.m = <<>> THEN -1
    ELSE IF y.m = <<>> THEN 1
    ELSE LET e == Min(x.e, y.e) IN BCmp(AlignM(x, e), AlignM(y, e))

FGt(x, y) == FCmp(x, y) = 1
FLe(x, y) == FCmp(x, y) # 1

FAdd(x, y) ==
    IF x.m = <<>> THEN y
    ELSE IF y.m = <<>> THEN x
    ELSE LET e == Min(x.e, y.e)
         IN  FRound(BAdd(AlignM(x, e), AlignM(y, e)), e, FALSE)

\* Math.abs(x - y)
FAbsDiff(x, y) ==
    IF x.m = <<>> THEN y
    ELSE IF y.m = <<>> THEN x
    ELSE LET e  == Min(x.e, y.e)
             mx == AlignM(x, e)
             my == AlignM(y, e)
         IN  IF BCmp(mx, my) >= 0 THEN FRound(BSub(mx, my), e, FALSE)
                                  ELSE FRound(BSub(my, mx), e, FALSE)

FMul(x, y) ==
    IF x.m = <<>> \/ y.m = <<>> THEN FZero
    ELSE FRound(BMul(x.m, y.m), x.e + y.e, FALSE)

\* x / n for an integer-valued divisor 0 < n < Base
FDivInt(x, n) ==
    IF x.m = <<>> THEN FZero
    ELSE LET num == BShl(x.m, 30)
         IN  FRound(BDivSmall(num, n), x.e - 30, BModSmall(num, n) # 0)


(***************************************************************************)
(* Bounds of the model.                                                    *)
(***************************************************************************)
NProcs == 2          \* concurrent buyStock calls
MaxFaults == 1       \* storage operations that fail in one behaviour
MaxTicks == 1        \* clock advances (minutes) in one behaviour
MaxFills == 3        \* sequential updateUserPortfolio calls
MaxTx == 2           \* ledger rows created through TransactionsService

Procs == 1..NProcs

(***************************************************************************)
(* Program constants.                                                      *)
(***************************************************************************)
FiveMinutes == 5                         \* 5 * 60 * 1000 ms, in minutes
retryAttempts == 3                       \* API_RETRY_ATTEMPTS default
TolerancePct == FFromRatio(2, 100)       \* the literal 0.02
StartTime == 10

Users == {"u1"}
NoTime == -1
NoMessage == ""

ToUpperCase(s) ==
    CASE s = "aapl" -> "AAPL"
      [] s = "Aapl" -> "AAPL"
      [] s = "zzzz" -> "ZZZZ"
      [] OTHER -> s

VARIABLES
    now,            \* Date.now(), minutes
    vendorItems,    \* first page of the vendor listing: Seq of [symbol, price]
    stocks,         \* table stocks: symbol -> row
    transactions,   \* table transactions: Seq of rows, id = index
    portfolios,     \* table portfolios: Seq of rows, id = index
    positions,      \* table portfolio_stocks: <<portfolioId, stockId>> -> row
    pc,             \* position of each call
    loc,            \* local variables of each call
    faults,         \* storage failures so far
    crashes,        \* crashed calls so far
    ticks,          \* clock advances so far
    applied,        \* history: fills written to portfolio_stocks
    response        \* outcome of the last TransactionsService call

vars == <<now, vendorItems, stocks, transactions, portfolios, positions,
          pc, loc, faults, crashes, ticks, applied, response>>

NoResult == [kind |-> "none", success |-> FALSE, message |-> NoMessage,
             transactionId |-> 0]
Returned(ok, msg, tx) == [kind |-> "returned", success |-> ok,
                          message |-> msg, transactionId |-> tx]
Threw(msg) == [kind |-> "threw", success |-> FALSE, message |-> msg,
               transactionId |-> 0]

NoPosition == [quantity |-> 0, averagePrice |-> FZero]

InitLoc == [symbol |-> "", price |-> 0, quantity |-> 0, userId |-> "",
            lookup |-> "none", stockId |-> "", currentPrice |-> 0, txId |-> 0, attempts |-> 0,
            confirmed |-> FALSE, vendorFailed |-> FALSE,
            errorMessage |-> NoMessage, portfolioId |-> 0,
            existing |-> NoPosition, result |-> NoResult]

StorageError == "StorageError"
UniqueViolation == "Unique constraint failed"
VendorBuyError == "Request failed"
VendorUnavailable == "Vendor API temporarily unavailable"
InvalidVendorResponse == "Invalid response from vendor API"
StockNotFound == "Stock not found"
OutsideTolerance == "Price is outside 2% tolerance of current price"
RecordNotFound == "Record to update not found"

(***************************************************************************)
(* StocksService.getStockBySymbol, one storage/vendor interaction.         *)
(*   vo : what the vendor listing request ends with, after its retries     *)
(*   fp : the storage operation that fails, if any                         *)
(*   W  : the listing items whose upsert in updateStockCache took effect   *)
(***************************************************************************)
IsStale(row) == row.lastUpdated < now - FiveMinutes

NeedsRefresh(U) == U \notin DOMAIN stocks \/ IsStale(stocks[U])

Upsert(tbl, item) ==
    LET U == ToUpperCase(item.symbol)
    IN  [s \in DOMAIN tbl \cup {U} |->
            IF s = U THEN [id |-> U, symbol |-> U, price |-> item.price,
                           lastUpdated |-> now]
                     ELSE tbl[s]]

RECURSIVE UpsertAll(_, _, _)
UpsertAll(tbl, W, i) ==
    IF i > Len(vendorItems) THEN tbl
    ELSE UpsertAll(IF i \in W THEN Upsert(tbl, vendorItems[i]) ELSE tbl, W, i + 1)

updateStockCache(W) == UpsertAll(stocks, W, 1)

AllItems == 1..Len(vendorItems)

Matches(U) == {i \in AllItems : ToUpperCase(vendorItems[i].symbol) = U}

\* Array.prototype.find: the first matching item
FindItem(U) == vendorItems[CHOOSE i \in Matches(U) : \A j \in Matches(U) : i <= j]

getStockBySymbol(symbol, vo, fp, W) ==
    LET U == ToUpperCase(symbol)
    IN  IF fp = "find"
        THEN [kind |-> "threw", error |-> StorageError, stocks |-> stocks]
        ELSE IF ~NeedsRefresh(U)
        THEN [kind |-> "stock", stock |-> stocks[U], stocks |-> stocks]
        ELSE IF vo = "unavailable"
        THEN [kind |-> "threw", error |-> VendorUnavailable, stocks |-> stocks]
        ELSE IF vo = "badResponse"
        THEN [kind |-> "threw", error |-> InvalidVendorResponse, stocks |-> stocks]
        ELSE LET cached == updateStockCache(W)
             IN  IF Matches(U) = {}
                 THEN [kind |-> "null", stocks |-> cached]
                 ELSE IF fp = "upsert"
                 THEN [kind |-> "threw", error |-> StorageError, stocks |-> cached]
                 ELSE LET tbl == Upsert(cached, [symbol |-> U, price |-> FindItem(U).price])
                      IN  [kind |-> "stock", stock |-> tbl[U], stocks |-> tbl]

\* the combinations of vo, fp, W that name distinct executions
LookupCase(symbol, vo, fp, W) ==
    LET U == ToUpperCase(symbol)
    IN  /\ fp \in {"none", "find", "cache", "upsert"}
        /\ vo \in {"ok", "unavailable", "badResponse"}
        /\ W \subseteq AllItems
        /\ (fp = "cache") = (W # AllItems)
        /\ fp = "find" => vo = "ok"
        /\ ~NeedsRefresh(U) => vo = "ok" /\ fp \in {"none", "find"}
        /\ vo # "ok" => fp \in {"none", "find"}
        /\ fp = "upsert" => Matches(U) # {}

(***************************************************************************)
(* StocksService.buyStock                                                  *)
(***************************************************************************)
\* priceDifference > tolerance
OutsideToleranceCheck(currentPrice, requestedPrice) ==
    LET priceDifference == FAbsDiff(FromCents(currentPrice), FromCents(requestedPrice))
        tolerance       == FMul(FromCents(currentPrice), TolerancePct)
    IN  FGt(priceDifference, tolerance)

Finish(p, l, res) ==
    /\ pc' = [pc EXCEPT ![p] = "done"]
    /\ loc' = [loc EXCEPT ![p] = [l EXCEPT !.result = res]]

Goto(p, l, label) ==
    /\ pc' = [pc EXCEPT ![p] = label]
    /\ loc' = [loc EXCEPT ![p] = l]

\* a storage operation fails only while the fault budget lasts
Fault(f) ==
    /\ f => faults < MaxFaults
    /\ faults' = IF f THEN faults + 1 ELSE faults

\* the catch (vendorError) block is entered with this error
Catch(p, msg) == Goto(p, [loc[p] EXCEPT !.errorMessage = msg], "markFailed")

\* totalAmount is the price of one share
NewTransactionUnitAmount(userId, stockId, type, quantity, price, call) ==
    [userId |-> userId, stockId |-> stockId, type |-> type,
     quantity |-> quantity, price |-> price,
     totalAmount |-> FromCents(price),
     status |-> "PENDING", errorMessage |-> NoMessage,
     createdAt |-> now, processedAt |-> NoTime, call |-> call]

NewTransaction(userId, stockId, type, quantity, price, call) ==
    [userId |-> userId, stockId |-> stockId, type |-> type,
     quantity |-> quantity, price |-> price,
     totalAmount |-> FMul(FromCents(price), FFromInt(quantity)),
     status |-> "PENDING", errorMessage |-> NoMessage,
     createdAt |-> now, processedAt |-> NoTime, call |-> call]

\* lines 140-143, 245-248: an error of the lookup leaves buyStock as it is
LookupThrew(p, l, error) ==
    /\ Finish(p, l, Threw(error))
    /\ UNCHANGED transactions

NotFoundRecorded(p, l) ==
    /\ Finish(p, l, Threw(StockNotFound))
    /\ transactions' = Append(transactions,
           [NewTransaction(l.userId, l.symbol, "BUY", l.quantity, l.price, p)
               EXCEPT !.status = "FAILED"])

\* lines 162-164: throw new HttpException(..., NOT_FOUND)
NotFound(p, l) ==
    /\ Finish(p, l, Threw(StockNotFound))
    /\ UNCHANGED transactions

RejectRecorded(p, l) ==
    /\ Finish(p, l, Returned(FALSE, OutsideTolerance, 0))
    /\ transactions' = Append(transactions,
           [NewTransaction(l.userId, l.stockId, "BUY", l.quantity, l.price, p)
               EXCEPT !.status = "FAILED"])

\* lines 170-174: return { success: false, message }
Reject(p, l) ==
    /\ Finish(p, l, Returned(FALSE, OutsideTolerance, 0))
    /\ UNCHANGED transactions

\* lines 155-174: price lookup, NOT_FOUND, tolerance gate
BuyLookup(p, symbol, price, quantity, userId, vo, fp, W) ==
    /\ pc[p] = "idle"
    /\ LookupCase(symbol, vo, fp, W)
    /\ Fault(fp # "none")
    /\ LET r == getStockBySymbol(symbol, vo, fp, W)
           l == [InitLoc EXCEPT !.symbol = symbol, !.price = price,
                                !.quantity = quantity, !.userId = userId,
                                !.lookup = r.kind]
       IN  /\ stocks' = r.stocks
           /\ IF r.kind = "threw" THEN LookupThrew(p, l, r.error)
              ELSE IF r.kind = "null" THEN NotFound(p, l)
              ELSE LET ls == [l EXCEPT !.stockId = r.stock.id,
                                       !.currentPrice = r.stock.price]
                   IN  IF OutsideToleranceCheck(r.stock.price, price)
                       THEN Reject(p, ls)
                       ELSE Goto(p, ls, "createTx") /\ UNCHANGED transactions
    /\ UNCHANGED <<now, vendorItems, portfolios, positions,
                   crashes, ticks, applied, response>>

\* an identical request already in the ledger is reused
BuyCreateTransactionDeduplicated(p, f) ==
    /\ pc[p] = "createTx"
    /\ Fault(f)
    /\ LET same == {i \in 1..Len(transactions) :
                       /\ transactions[i].userId = loc[p].userId
                       /\ transactions[i].stockId = loc[p].stockId
                       /\ transactions[i].quantity = loc[p].quantity
                       /\ transactions[i].price = loc[p].price}
       IN  IF f
           THEN /\ Finish(p, loc[p], Threw(StorageError))
                /\ UNCHANGED transactions
           ELSE IF same # {}
           THEN /\ Goto(p, [loc[p] EXCEPT !.txId = CHOOSE i \in same : TRUE], "vendor")
                /\ UNCHANGED transactions
           ELSE /\ transactions' = Append(transactions,
                       NewTransaction(loc[p].userId, loc[p].stockId, "BUY",
                                      loc[p].quantity, loc[p].price, p))
                /\ Goto(p, [loc[p] EXCEPT !.txId = Len(transactions) + 1], "vendor")
    /\ UNCHANGED <<now, vendorItems, stocks, portfolios, positions,
                   crashes, ticks, applied, response>>

\* the vendor request is sent before the PENDING row is written
BuyCreateTransactionLate(p, f) ==
    /\ pc[p] = "createTx"
    /\ Fault(f)
    /\ IF f
       THEN Finish(p, loc[p], Threw(StorageError))
       ELSE Goto(p, [loc[p] EXCEPT !.txId = Len(transactions) + 1], "vendor")
    /\ UNCHANGED <<now, vendorItems, stocks, transactions, portfolios, positions,
                   crashes, ticks, applied, response>>

\* lines 176-187: prisma.transaction.create
BuyCreateTransaction(p, f) ==
    /\ pc[p] = "createTx"
    /\ Fault(f)
    /\ IF f
       THEN /\ Finish(p, loc[p], Threw(StorageError))
            /\ UNCHANGED transactions
       ELSE /\ transactions' = Append(transactions,
                   NewTransaction(loc[p].userId, loc[p].stockId, "BUY",
                                  loc[p].quantity, loc[p].price, p))
            /\ Goto(p, [loc[p] EXCEPT !.txId = Len(transactions) + 1], "vendor")
    /\ UNCHANGED <<now, vendorItems, stocks, portfolios, positions,
                   crashes, ticks, applied, response>>

\* the last failed attempt is swallowed instead of rethrown
BuyVendorAttemptSwallowed(p, ok) ==
    /\ pc[p] = "vendor"
    /\ IF ok
       THEN Goto(p, [loc[p] EXCEPT !.attempts = 0, !.confirmed = TRUE], "markSuccess")
       ELSE IF loc[p].attempts < retryAttempts
       THEN Goto(p, [loc[p] EXCEPT !.attempts = @ + 1], "vendor")
       ELSE Goto(p, [loc[p] EXCEPT !.attempts = 0, !.vendorFailed = TRUE], "markSuccess")
    /\ UNCHANGED <<now, vendorItems, stocks, transactions, portfolios,
                   positions, faults, crashes, ticks, applied, response>>

\* lines 189-209: one attempt of the vendor POST under retry({ count });
\* attempts is the error count kept by the retry operator while it is subscribed
BuyVendorAttempt(p, ok) ==
    /\ pc[p] = "vendor"
    /\ IF ok
       THEN Goto(p, [loc[p] EXCEPT !.attempts = 0, !.confirmed = TRUE], "markSuccess")
       ELSE IF loc[p].attempts < retryAttempts
       THEN Goto(p, [loc[p] EXCEPT !.attempts = @ + 1], "vendor")
       ELSE Goto(p, [loc[p] EXCEPT !.attempts = 0, !.vendorFailed = TRUE,
                                   !.errorMessage = VendorBuyError], "markFailed")
    /\ UNCHANGED <<now, vendorItems, stocks, transactions, portfolios,
                   positions, faults, crashes, ticks, applied, response>>

\* the update also rewrites createdAt
SetStatusAndCreatedAt(id, status, msg) ==
    [transactions EXCEPT ![id] = [@ EXCEPT !.status = status,
                                           !.errorMessage = msg,
                                           !.processedAt = now,
                                           !.createdAt = now]]

SetStatus(id, status, msg) ==
    [transactions EXCEPT ![id] = [@ EXCEPT !.status = status,
                                           !.errorMessage = msg,
                                           !.processedAt = now]]

\* the portfolio is updated before the ledger transition is written
BuyMarkSuccessSkipped(p, f) ==
    /\ pc[p] = "markSuccess"
    /\ Fault(f)
    /\ IF f THEN Catch(p, StorageError) ELSE Goto(p, loc[p], "pfFind")
    /\ UNCHANGED <<now, vendorItems, stocks, transactions, portfolios, positions,
                   crashes, ticks, applied, response>>

\* lines 211-218: prisma.transaction.update to SUCCESS
BuyMarkSuccess(p, f) ==
    /\ pc[p] = "markSuccess"
    /\ Fault(f)
    /\ IF f
       THEN /\ Catch(p, StorageError)
            /\ UNCHANGED transactions
       ELSE /\ transactions' = SetStatus(loc[p].txId, "SUCCESS",
                                         transactions[loc[p].txId].errorMessage)
            /\ Goto(p, loc[p], "pfFind")
    /\ UNCHANGED <<now, vendorItems, stocks, portfolios, positions,
                   crashes, ticks, applied, response>>

\* lines 226-243: catch block, prisma.transaction.update to FAILED
BuyMarkFailed(p, f) ==
    /\ pc[p] = "markFailed"
    /\ Fault(f)
    /\ IF f
       THEN /\ Finish(p, loc[p], Threw(StorageError))
            /\ UNCHANGED transactions
       ELSE /\ transactions' = SetStatus(loc[p].txId, "FAILED", loc[p].errorMessage)
            /\ Finish(p, loc[p], Returned(FALSE, loc[p].errorMessage, loc[p].txId))
    /\ UNCHANGED <<now, vendorItems, stocks, portfolios, positions,
                   crashes, ticks, applied, response>>


(***************************************************************************)
(* StocksService.updateUserPortfolio; every error it throws is caught by   *)
(* the catch (vendorError) block of buyStock.                              *)
(***************************************************************************)
UserPortfolios(userId) == {i \in 1..Len(portfolios) : portfolios[i].userId = userId}

\* lines 292-295: prisma.portfolio.findFirst({ where: { userId } })
PortfolioFindFirst(p, f) ==
    /\ pc[p] = "pfFind"
    /\ Fault(f)
    /\ IF f THEN Catch(p, StorageError)
       ELSE IF UserPortfolios(loc[p].userId) = {}
       THEN Goto(p, loc[p], "pfCreate")
       ELSE \E pf \in UserPortfolios(loc[p].userId) :
                Goto(p, [loc[p] EXCEPT !.portfolioId = pf], "posFind")
    /\ UNCHANGED <<now, vendorItems, stocks, transactions, portfolios,
                   positions, crashes, ticks, applied, response>>

\* lines 297-304: prisma.portfolio.create
PortfolioCreate(p, f) ==
    /\ pc[p] = "pfCreate"
    /\ Fault(f)
    /\ IF f
       THEN /\ Catch(p, StorageError)
            /\ UNCHANGED portfolios
       ELSE /\ portfolios' = Append(portfolios,
                   [userId |-> loc[p].userId, name |-> "Default Portfolio",
                    call |-> p])
            /\ Goto(p, [loc[p] EXCEPT !.portfolioId = Len(portfolios) + 1], "posFind")
    /\ UNCHANGED <<now, vendorItems, stocks, transactions, positions,
                   crashes, ticks, applied, response>>

PositionKey(l) == <<l.portfolioId, l.stockId>>

\* lines 306-314: prisma.portfolioStock.findUnique
PositionFindUnique(p, f) ==
    /\ pc[p] = "posFind"
    /\ Fault(f)
    /\ IF f THEN Catch(p, StorageError)
       ELSE IF PositionKey(loc[p]) \in DOMAIN positions
       THEN Goto(p, [loc[p] EXCEPT !.existing = positions[PositionKey(loc[p])]],
                 "posUpdate")
       ELSE Goto(p, loc[p], "posCreate")
    /\ UNCHANGED <<now, vendorItems, stocks, transactions, portfolios,
                   positions, crashes, ticks, applied, response>>

\* lines 318-320: totalShares, totalCost, newAveragePrice
NewPosition(existingPosition, quantity, price) ==
    LET totalShares == existingPosition.quantity + quantity
        totalCost   == FAdd(FMul(FFromInt(existingPosition.quantity),
                                 existingPosition.averagePrice),
                            FMul(FFromInt(quantity), FromCents(price)))
    IN  [quantity |-> totalShares, averagePrice |-> FDivInt(totalCost, totalShares)]

Fill(p) == [call |-> p, tx |-> loc[p].txId, key |-> PositionKey(loc[p]),
            quantity |-> loc[p].quantity, price |-> loc[p].price]

\* lines 316-328: prisma.portfolioStock.update({ where: { id } })
PositionUpdate(p, f) ==
    /\ pc[p] = "posUpdate"
    /\ Fault(f)
    /\ IF f
       THEN /\ Catch(p, StorageError)
            /\ UNCHANGED <<positions, applied>>
       ELSE /\ positions' = [positions EXCEPT ![PositionKey(loc[p])] =
                   NewPosition(loc[p].existing, loc[p].quantity, loc[p].price)]
            /\ applied' = Append(applied, Fill(p))
            /\ Finish(p, loc[p], Returned(TRUE, NoMessage, loc[p].txId))
    /\ UNCHANGED <<now, vendorItems, stocks, transactions, portfolios,
                   crashes, ticks, response>>

\* the new position is valued at the cached price of the stock
PositionCreateAtCachedPrice(p, f) ==
    /\ pc[p] = "posCreate"
    /\ Fault(f)
    /\ IF f
       THEN /\ Catch(p, StorageError)
            /\ UNCHANGED <<positions, applied>>
       ELSE IF PositionKey(loc[p]) \in DOMAIN positions
       THEN /\ Catch(p, UniqueViolation)
            /\ UNCHANGED <<positions, applied>>
       ELSE /\ positions' = [k \in DOMAIN positions \cup {PositionKey(loc[p])} |->
                   IF k = PositionKey(loc[p])
                   THEN [quantity |-> loc[p].quantity,
                         averagePrice |-> FromCents(loc[p].currentPrice)]
                   ELSE positions[k]]
            /\ applied' = Append(applied, Fill(p))
            /\ Finish(p, loc[p], Returned(TRUE, NoMessage, loc[p].txId))
    /\ UNCHANGED <<now, vendorItems, stocks, transactions, portfolios,
                   crashes, ticks, response>>

\* lines 329-339: prisma.portfolioStock.create under @@unique([portfolioId, stockId])
PositionCreate(p, f) ==
    /\ pc[p] = "posCreate"
    /\ Fault(f)
    /\ IF f
       THEN /\ Catch(p, StorageError)
            /\ UNCHANGED <<positions, applied>>
       ELSE IF PositionKey(loc[p]) \in DOMAIN positions
       THEN /\ Catch(p, UniqueViolation)
            /\ UNCHANGED <<positions, applied>>
       ELSE /\ positions' = [k \in DOMAIN positions \cup {PositionKey(loc[p])} |->
                   IF k = PositionKey(loc[p])
                   THEN [quantity |-> loc[p].quantity,
                         averagePrice |-> FromCents(loc[p].price)]
                   ELSE positions[k]]
            /\ applied' = Append(applied, Fill(p))
            /\ Finish(p, loc[p], Returned(TRUE, NoMessage, loc[p].txId))
    /\ UNCHANGED <<now, vendorItems, stocks, transactions, portfolios,
                   crashes, ticks, response>>

(***************************************************************************)
(* Environment: process restart in the middle of a call, passing of time.  *)
(***************************************************************************)
Running(p) == pc[p] \notin {"idle", "done", "crashed"}

\* the restarted process has lost the locals of the call
Crash(p) ==
    /\ Running(p)
    /\ crashes' = crashes + 1
    /\ Goto(p, InitLoc, "crashed")
    /\ UNCHANGED <<now, vendorItems, stocks, transactions, portfolios,
                   positions, faults, ticks, applied, response>>

Tick ==
    /\ ticks < MaxTicks
    /\ ticks' = ticks + 1
    /\ now' = now + 1
    /\ UNCHANGED <<vendorItems, stocks, transactions, portfolios, positions,
                   pc, loc, faults, crashes, applied, response>>

(***************************************************************************)
(* Sequential fills: updateUserPortfolio(userId, stockId, quantity, price) *)
(* called for one fill after the other.                                    *)
(***************************************************************************)
FillCall(p, userId, stockId, quantity, price) ==
    /\ pc[p] = "idle"
    /\ Len(applied) < MaxFills
    /\ Goto(p, [InitLoc EXCEPT !.userId = userId, !.stockId = stockId,
                               !.quantity = quantity, !.price = price], "pfFind")
    /\ UNCHANGED <<now, vendorItems, stocks, transactions, portfolios,
                   positions, faults, crashes, ticks, applied, response>>

FillReturn(p) ==
    /\ pc[p] = "done"
    /\ Goto(p, InitLoc, "idle")
    /\ UNCHANGED <<now, vendorItems, stocks, transactions, portfolios,
                   positions, faults, crashes, ticks, applied, response>>

(***************************************************************************)
(* TransactionsService: createTransaction, updateTransactionStatus         *)
(***************************************************************************)
Undefined == "undefined"

NoResponse == [op |-> "none", id |-> 0, ok |-> TRUE, error |-> NoMessage]

createTransaction(userId, stockId, type, quantity, price) ==
    /\ Len(transactions) < MaxTx
    /\ transactions' = Append(transactions,
           NewTransaction(userId, stockId, type, quantity, price, 0))
    /\ response' = [op |-> "createTransaction", id |-> Len(transactions) + 1,
                    ok |-> TRUE, error |-> NoMessage]
    /\ UNCHANGED <<now, vendorItems, stocks, portfolios, positions, pc, loc,
                   faults, crashes, ticks, applied>>

\* prisma.transaction.update({ where: { id }, data: { status, errorMessage, processedAt } })
updateTransactionStatus(transactionId, status, errorMessage) ==
    /\ IF transactionId \in 1..Len(transactions)
       THEN /\ transactions' = SetStatus(transactionId, status,
                   IF errorMessage = Undefined
                   THEN transactions[transactionId].errorMessage
                   ELSE errorMessage)
            /\ response' = [op |-> "updateTransactionStatus", id |-> transactionId,
                            ok |-> TRUE, error |-> NoMessage]
       ELSE /\ UNCHANGED transactions
            /\ response' = [op |-> "updateTransactionStatus", id |-> transactionId,
                            ok |-> FALSE, error |-> RecordNotFound]
    /\ UNCHANGED <<now, vendorItems, stocks, portfolios, positions, pc, loc,
                   faults, crashes, ticks, applied>>


(***************************************************************************)
(* Specification Spec: NProcs concurrent buyStock calls, with storage      *)
(* failures, vendor failures, crashes and time.                            *)
(***************************************************************************)
EmptyTables ==
    /\ transactions = <<>>
    /\ portfolios = <<>>
    /\ positions = <<>>
    /\ applied = <<>>
    /\ pc = [p \in Procs |-> "idle"]
    /\ loc = [p \in Procs |-> InitLoc]
    /\ faults = 0
    /\ crashes = 0
    /\ ticks = 0
    /\ response = NoResponse

StockRow(U, price, at) == [id |-> U, symbol |-> U, price |-> price, lastUpdated |-> at]

\* requests <<symbol, price, quantity>>: admitted, outside tolerance, unknown symbol
BuyRequests == {<<"aapl", 100, 1>>, <<"aapl", 103, 1>>, <<"ZZZZ", 100, 1>>}
Listing == <<[symbol |-> "AAPL", price |-> 100]>>

Init ==
    /\ now = StartTime
    /\ vendorItems = Listing
    /\ stocks = [s \in {"AAPL"} |-> StockRow("AAPL", 100, StartTime - FiveMinutes - 1)]
    /\ EmptyTables

Next ==
    \/ \E p \in Procs, r \in BuyRequests, userId \in Users,
          vo \in {"ok", "unavailable", "badResponse"},
          fp \in {"none", "find", "cache", "upsert"}, W \in SUBSET (1..Len(Listing)) :
            BuyLookup(p, r[1], r[2], r[3], userId, vo, fp, W)
    \/ \E p \in Procs, f \in BOOLEAN : BuyCreateTransaction(p, f)
    \/ \E p \in Procs, ok \in BOOLEAN : BuyVendorAttempt(p, ok)
    \/ \E p \in Procs, f \in BOOLEAN : BuyMarkSuccess(p, f)
    \/ \E p \in Procs, f \in BOOLEAN : BuyMarkFailed(p, f)
    \/ \E p \in Procs, f \in BOOLEAN : PortfolioFindFirst(p, f)
    \/ \E p \in Procs, f \in BOOLEAN : PortfolioCreate(p, f)
    \/ \E p \in Procs, f \in BOOLEAN : PositionFindUnique(p, f)
    \/ \E p \in Procs, f \in BOOLEAN : PositionUpdate(p, f)
    \/ \E p \in Procs, f \in BOOLEAN : PositionCreate(p, f)
    \/ \E p \in Procs : Crash(p)

Spec == Init /\ [][Next]_vars


(***************************************************************************)
(* Specification SpecTol: one buyStock call against a fresh cached price,  *)
(* requests at, inside and outside the 2% boundary.                        *)
(***************************************************************************)
TolCurrentPrices == {50, 100, 150, 200, 5000, 10000, 10050, 17550}

\* for current price P (cents): P*0.98, P*1.02, one cent beyond each, and P
TolRequests(P) == {(P * 98) \div 100 - 1, (P * 98) \div 100, P,
                   (P * 102) \div 100, (P * 102) \div 100 + 1}

InitTol ==
    /\ now = StartTime
    /\ vendorItems = <<>>
    /\ \E P \in TolCurrentPrices :
          stocks = [s \in {"AAPL"} |-> StockRow("AAPL", P, StartTime)]
    /\ EmptyTables

NextTol ==
    \/ \E R \in TolRequests(stocks["AAPL"].price) :
          BuyLookup(1, "AAPL", R, 1, "u1", "ok", "none", {})
    \/ BuyCreateTransaction(1, FALSE)
    \/ BuyVendorAttempt(1, TRUE)
    \/ BuyMarkSuccess(1, FALSE)
    \/ PortfolioFindFirst(1, FALSE)
    \/ PortfolioCreate(1, FALSE)
    \/ PositionFindUnique(1, FALSE)
    \/ PositionCreate(1, FALSE)

SpecTol == InitTol /\ [][NextTol]_vars

(***************************************************************************)
(* Specification SpecFill: fills applied one after the other by            *)
(* updateUserPortfolio to the position of one user and stock.              *)
(***************************************************************************)
FillQuantities == {1, 50, 100}
FillPrices == {10, 20, 17000, 35000}

InitFill ==
    /\ now = StartTime
    /\ vendorItems = <<>>
    /\ stocks = <<>>
    /\ EmptyTables

NextFill ==
    \/ \E quantity \in FillQuantities, price \in FillPrices :
          FillCall(1, "u1", "AAPL", quantity, price)
    \/ PortfolioFindFirst(1, FALSE)
    \/ PortfolioCreate(1, FALSE)
    \/ PositionFindUnique(1, FALSE)
    \/ PositionCreate(1, FALSE)
    \/ PositionUpdate(1, FALSE)
    \/ FillReturn(1)

SpecFill == InitFill /\ [][NextFill]_vars

(***************************************************************************)
(* Specification SpecLedger: the TransactionsService operations.           *)
(***************************************************************************)
Statuses == {"PENDING", "SUCCESS", "FAILED"}
Terminal == {"SUCCESS", "FAILED"}

NextLedger ==
    \/ \E type \in {"BUY", "SELL"}, quantity \in {1, 2} :
          createTransaction("u1", "AAPL", type, quantity, 100)
    \/ \E id \in 1..(MaxTx + 1), status \in Statuses,
          errorMessage \in {Undefined, "rejected by vendor"} :
          updateTransactionStatus(id, status, errorMessage)
    \/ Tick

SpecLedger == InitFill /\ [][NextLedger]_vars


(***************************************************************************)
(* Claims                                                                  *)
(***************************************************************************)
TxOf(p) == {i \in 1..Len(transactions) : transactions[i].call = p}
PortfoliosOf(p) == {i \in 1..Len(portfolios) : portfolios[i].call = p}
FillsOf(p) == {k \in 1..Len(applied) : applied[k].call = p}

Abs(x) == IF x < 0 THEN -x ELSE x

\* |P - R| <= 2% of P, in exact arithmetic on cents
WithinTwoPercent(P, R) == 100 * Abs(P - R) <= 2 * P

PastGate(p) == loc[p].lookup = "stock"
Rejected(p) == pc[p] = "done" /\ loc[p].result = Returned(FALSE, OutsideTolerance, 0)

\* C1: for every current price P and requested price R, buyStock admits the
\* request if and only if |P - R| <= 2% of P (a request exactly at P*1.02 or
\* P*0.98 is admitted); a request further away is rejected with
\* success = false and a message.
C1_ToleranceIff ==
    \A p \in Procs :
        PastGate(p) =>
            (~Rejected(p) <=> WithinTwoPercent(loc[p].currentPrice, loc[p].price))

NoTrace(p) ==
    /\ TxOf(p) = {}
    /\ PortfoliosOf(p) = {}
    /\ FillsOf(p) = {}
    /\ loc[p].txId = 0
    /\ ~loc[p].confirmed
    /\ ~loc[p].vendorFailed

\* C2: a buy request that violates the 2% tolerance creates no Transaction
\* row, sends no buy call to the vendor and changes no portfolio or position:
\* ledger and portfolio state after the rejected call equal the state before.
C2_RejectedBuyLeavesNoTrace ==
    /\ [](\A p \in Procs : Rejected(p) => NoTrace(p))
    /\ [][\A p \in Procs :
            (pc[p] = "idle" /\ Rejected(p)') =>
                UNCHANGED <<transactions, portfolios, positions, applied>>]_vars

C2_Witness ==
    \E p \in Procs : Rejected(p) /\ Len(transactions) > 0

LookupNull(p) == loc[p].lookup = "null"

\* C3: when the price lookup yields NotFound, buyStock fails with
\* StockNotFound; no Transaction row is created, no vendor buy call is made
\* and no portfolio is touched.
C3_NotFoundLeavesNoTrace ==
    /\ [](\A p \in Procs :
            LookupNull(p) =>
                /\ pc[p] = "done"
                /\ loc[p].result = Threw(StockNotFound)
                /\ NoTrace(p))
    /\ [][\A p \in Procs :
            (pc[p] = "idle" /\ LookupNull(p)') =>
                UNCHANGED <<transactions, portfolios, positions, applied>>]_vars

C3_Witness ==
    \E p \in Procs : LookupNull(p) /\ pc[p] = "done" /\ Len(transactions) > 0

\* C4: every transaction opened by buyStock starts PENDING and transitions
\* exactly once, to SUCCESS or FAILED; once it is SUCCESS or FAILED no later
\* step of the buy flow changes its status again.
C4_TransitionsOnce ==
    [][\A i \in 1..Len(transactions) :
          transactions[i].status \in Terminal =>
              transactions'[i].status = transactions[i].status]_vars

\* C5: a transaction whose status is SUCCESS or FAILED can never be
\* transitioned again by updateTransactionStatus; the attempt fails with an
\* error and leaves status, errorMessage and processedAt unchanged.
C5_LedgerTerminality ==
    [][\A i \in 1..Len(transactions) :
          transactions[i].status \in Terminal =>
              /\ transactions'[i] = transactions[i]
              /\ (response'.op = "updateTransactionStatus" /\ response'.id = i
                    /\ response' # response) => ~response'.ok]_vars

InPortfolioUpdate(p) ==
    pc[p] \in {"pfFind", "pfCreate", "posFind", "posUpdate", "posCreate"}

C7_ConfirmedIsNeverFailed ==
    \A p \in Procs :
        loc[p].confirmed => transactions[loc[p].txId].status # "FAILED"

FillsInto(key) == {k \in 1..Len(applied) : applied[k].key = key}

RECURSIVE SumQuantity(_)
SumQuantity(S) ==
    IF S = {} THEN 0
    ELSE LET k == CHOOSE x \in S : TRUE
         IN  applied[k].quantity + SumQuantity(S \ {k})

RECURSIVE SumCost(_)
SumCost(S) ==
    IF S = {} THEN 0
    ELSE LET k == CHOOSE x \in S : TRUE
         IN  applied[k].quantity * applied[k].price + SumCost(S \ {k})

\* the position that results from applying the fills of seq in the order ks
RECURSIVE ApplyInOrder(_, _)
ApplyInOrder(ks, pos) ==
    IF ks = <<>> THEN pos
    ELSE LET f == applied[Head(ks)]
         IN  ApplyInOrder(Tail(ks),
                 IF pos.quantity = 0
                 THEN [quantity |-> f.quantity, averagePrice |-> FromCents(f.price)]
                 ELSE NewPosition(pos, f.quantity, f.price))

Reversed == [i \in 1..Len(applied) |-> Len(applied) + 1 - i]

\* C9: after any sequence of sequentially applied fills into one position,
\* its quantity is the sum of the qi and its averagePrice equals
\* sum(qi*pi)/sum(qi) (the binary64 number nearest to that quotient),
\* independent of the order of the fills.
C9_WeightedAverage ==
    \A key \in DOMAIN positions :
        /\ positions[key].quantity = SumQuantity(FillsInto(key))
        /\ positions[key].averagePrice =
              FFromRatio(SumCost(FillsInto(key)),
                         100 * SumQuantity(FillsInto(key)))
        /\ positions[key].averagePrice = ApplyInOrder(Reversed, NoPosition).averagePrice

AllConfirmedSameFill ==
    /\ faults = 0
    /\ \A p \in Procs :
          /\ pc[p] = "done"
          /\ loc[p].confirmed
          /\ loc[p].userId = "u1" /\ loc[p].stockId = "AAPL"
          /\ loc[p].quantity = 1 /\ loc[p].price = 100

\* C10: N concurrent vendor-confirmed buys of quantity 1 at price P by the
\* same user for the same symbol into a fresh position end, under every
\* interleaving, with position quantity = N and averagePrice = P; no fill is
\* lost and no buy fails because of the other.
C10_ConcurrentFills ==
    AllConfirmedSameFill =>
        /\ \A p \in Procs : loc[p].result.success
        /\ \A key \in DOMAIN positions :
              /\ positions[key].quantity = NProcs
              /\ positions[key].averagePrice = FromCents(100)
        /\ DOMAIN positions # {}

Quiescent == \A p \in Procs : pc[p] \in {"idle", "done"}

SuccessBuys(userId, stockId) ==
    {i \in 1..Len(transactions) :
        /\ transactions[i].userId = userId
        /\ transactions[i].stockId = stockId
        /\ transactions[i].type = "BUY"
        /\ transactions[i].status = "SUCCESS"}

RECURSIVE SumTxQuantity(_)
SumTxQuantity(S) ==
    IF S = {} THEN 0
    ELSE LET i == CHOOSE x \in S : TRUE
         IN  transactions[i].quantity + SumTxQuantity(S \ {i})

PositionsOf(userId, stockId) ==
    {key \in DOMAIN positions :
        key[1] \in UserPortfolios(userId) /\ key[2] = stockId}

RECURSIVE SumHeld(_)
SumHeld(K) ==
    IF K = {} THEN 0
    ELSE LET key == CHOOSE x \in K : TRUE
         IN  positions[key].quantity + SumHeld(K \ {key})

\* C11: in every state in which no buy is in progress (every call has
\* returned or thrown, none has crashed), for every user and stock the
\* quantity held in the user's positions for that stock equals the sum of
\* the quantities of the user's SUCCESS BUY transactions for that stock.
C11_SharesReconcile ==
    Quiescent =>
        \A userId \in Users, stockId \in DOMAIN stocks :
            SumHeld(PositionsOf(userId, stockId)) =
                SumTxQuantity(SuccessBuys(userId, stockId))

(***************************************************************************)
(* Specification SpecCache: buyStock called MaxLookups times, one call     *)
(* after the other, with getStockBySymbol and getStocksFromVendor taken    *)
(* one storage or vendor interaction at a time, while the clock advances.  *)
(***************************************************************************)
MaxLookups == 2

NoRow == StockRow("", 0, NoTime)

\* what the vendor lists behind the nextToken of the first page
SecondPage == <<[symbol |-> "MSFT", price |-> 200]>>

FullListing == vendorItems \o SecondPage

\* locals of buyStock and of the getStockBySymbol call it makes
InitCacheLoc ==
    [f \in DOMAIN InitLoc \cup {"found", "checkedAt", "refresh", "refreshedAt",
                                "lastError", "returned", "seq"} |->
        CASE f = "found"       -> NoRow
          [] f = "checkedAt"   -> NoTime
          [] f = "refresh"     -> "none"
          [] f = "refreshedAt" -> NoTime
          [] f = "lastError"   -> "none"
          [] f = "returned"    -> NoRow
          [] f = "seq"         -> 0
          [] OTHER             -> InitLoc[f]]

LookupCall(p, symbol, price, quantity, userId) ==
    /\ pc[p] = "idle"
    /\ loc[p].seq < MaxLookups
    /\ Goto(p, [loc[p] EXCEPT !.symbol = symbol, !.price = price,
                              !.quantity = quantity, !.userId = userId,
                              !.seq = @ + 1], "find")
    /\ UNCHANGED <<now, vendorItems, stocks, transactions, portfolios,
                   positions, faults, crashes, ticks, applied, response>>

\* lines 161-174 of buyStock, applied to what getStockBySymbol ended with
BuyGate(p, l, r) ==
    LET lk == [l EXCEPT !.lookup = r.kind]
    IN  IF r.kind = "threw" THEN LookupThrew(p, lk, r.error)
        ELSE IF r.kind = "null" THEN NotFound(p, lk)
        ELSE LET ls == [lk EXCEPT !.stockId = r.stock.id,
                                  !.currentPrice = r.stock.price,
                                  !.returned = r.stock]
             IN  IF OutsideToleranceCheck(r.stock.price, l.price)
                 THEN Reject(p, ls)
                 ELSE Goto(p, ls, "createTx") /\ UNCHANGED transactions

\* the cached row is returned whatever its age
LookupFindNoRefresh(p, f) ==
    /\ pc[p] = "find"
    /\ Fault(f)
    /\ LET U == ToUpperCase(loc[p].symbol)
           l == [loc[p] EXCEPT !.checkedAt = now,
                               !.found = IF U \in DOMAIN stocks THEN stocks[U]
                                                                ELSE NoRow]
       IN  IF f THEN BuyGate(p, loc[p], [kind |-> "threw", error |-> StorageError])
           ELSE IF U \in DOMAIN stocks
           THEN BuyGate(p, l, [kind |-> "stock", stock |-> stocks[U]])
           ELSE Goto(p, l, "listing") /\ UNCHANGED transactions
    /\ UNCHANGED <<now, vendorItems, stocks, portfolios, positions,
                   crashes, ticks, applied, response>>

\* lines 95-102: prisma.stock.findUnique, then the staleness test
LookupFind(p, f) ==
    /\ pc[p] = "find"
    /\ Fault(f)
    /\ LET U == ToUpperCase(loc[p].symbol)
           l == [loc[p] EXCEPT !.checkedAt = now,
                               !.found = IF U \in DOMAIN stocks THEN stocks[U]
                                                                ELSE NoRow]
       IN  IF f THEN BuyGate(p, loc[p], [kind |-> "threw", error |-> StorageError])
           ELSE IF ~NeedsRefresh(U)
           THEN BuyGate(p, l, [kind |-> "stock", stock |-> stocks[U]])
           ELSE Goto(p, l, "listing") /\ UNCHANGED transactions
    /\ UNCHANGED <<now, vendorItems, stocks, portfolios, positions,
                   crashes, ticks, applied, response>>

\* what one HTTP request to the vendor ends with: a 2xx answer whose body has
\* status 200, a 2xx answer whose body has another status, a network error,
\* 5xx or timeout, a 4xx answer
VendorOutcomes == {"ok", "badStatus", "transient", "client"}

RetryAgainOnceMore(errors) == errors < retryAttempts + 1

\* retry({ count }): resubscribe while fewer than count errors were seen
RetryAgain(errors) == errors < retryAttempts

\* after the failed refresh a stale row, if there is one, is served
ListingFailedServeStale(p, l, state, msg) ==
    IF l.found # NoRow
    THEN BuyGate(p, [l EXCEPT !.attempts = 0, !.lastError = "none", !.refresh = state],
                 [kind |-> "stock", stock |-> l.found])
    ELSE BuyGate(p, [l EXCEPT !.attempts = 0, !.lastError = "none", !.refresh = state],
                 [kind |-> "threw", error |-> msg])

\* lines 49-55, 61-66, 76-79, 140-143: the HttpException leaves
\* getStocksFromVendor and getStockBySymbol
ListingFailed(p, l, state, msg) ==
    BuyGate(p, [l EXCEPT !.attempts = 0, !.lastError = "none", !.refresh = state],
            [kind |-> "threw", error |-> msg])

\* an answer whose body status is not 200 is retried like a request error
ListingAttemptBadStatusRetried(p, outcome) ==
    /\ pc[p] = "listing"
    /\ IF outcome = "ok"
       THEN /\ Goto(p, [loc[p] EXCEPT !.attempts = 0, !.lastError = "none",
                                      !.refresh = "ok"], "cache")
            /\ UNCHANGED transactions
       ELSE IF RetryAgain(loc[p].attempts)
       THEN /\ Goto(p, [loc[p] EXCEPT !.attempts = @ + 1, !.lastError = outcome],
                    "listing")
            /\ UNCHANGED transactions
       ELSE ListingFailed(p, loc[p], "unavailable", VendorUnavailable)
    /\ UNCHANGED <<now, vendorItems, stocks, portfolios, positions, faults,
                   crashes, ticks, applied, response>>

\* lines 39-66: one request of getStocksFromVendor(), without nextToken
ListingAttempt(p, outcome) ==
    /\ pc[p] = "listing"
    /\ IF outcome = "ok"
       THEN /\ Goto(p, [loc[p] EXCEPT !.attempts = 0, !.lastError = "none",
                                      !.refresh = "ok"], "cache")
            /\ UNCHANGED transactions
       ELSE IF outcome = "badStatus"
       THEN ListingFailed(p, loc[p], "badResponse", InvalidVendorResponse)
       ELSE IF RetryAgain(loc[p].attempts)
       THEN /\ Goto(p, [loc[p] EXCEPT !.attempts = @ + 1, !.lastError = outcome],
                    "listing")
            /\ UNCHANGED transactions
       ELSE ListingFailed(p, loc[p], "unavailable", VendorUnavailable)
    /\ UNCHANGED <<now, vendorItems, stocks, portfolios, positions, faults,
                   crashes, ticks, applied, response>>

\* line 71: updateStockCache(stockData.items); the upserts of W take effect
CacheWrite(p, W) ==
    /\ pc[p] = "cache"
    /\ W \subseteq AllItems
    /\ Fault(W # AllItems)
    /\ stocks' = updateStockCache(W)
    /\ Goto(p, [loc[p] EXCEPT !.refreshedAt = now], "match")
    /\ UNCHANGED <<now, vendorItems, transactions, portfolios, positions,
                   crashes, ticks, applied, response>>

\* a failed upsert of the looked-up row is swallowed and the vendor's item is
\* returned as if it had been stored
LookupUpsertSwallowed(p, f) ==
    /\ pc[p] = "match"
    /\ Fault(f)
    /\ LET U == ToUpperCase(loc[p].symbol)
       IN  IF Matches(U) = {}
           THEN ~f /\ BuyGate(p, loc[p], [kind |-> "null"]) /\ UNCHANGED stocks
           ELSE LET tbl == Upsert(stocks, [symbol |-> U, price |-> FindItem(U).price])
                IN  /\ stocks' = IF f THEN stocks ELSE tbl
                    /\ BuyGate(p, loc[p], [kind |-> "stock", stock |-> tbl[U]])
    /\ UNCHANGED <<now, vendorItems, portfolios, positions,
                   crashes, ticks, applied, response>>

\* lines 107-129: items.find, return null, prisma.stock.upsert
LookupUpsert(p, f) ==
    /\ pc[p] = "match"
    /\ Fault(f)
    /\ LET U == ToUpperCase(loc[p].symbol)
       IN  IF Matches(U) = {}
           THEN ~f /\ BuyGate(p, loc[p], [kind |-> "null"]) /\ UNCHANGED stocks
           ELSE IF f
           THEN /\ BuyGate(p, loc[p], [kind |-> "threw", error |-> StorageError])
                /\ UNCHANGED stocks
           ELSE LET tbl == Upsert(stocks, [symbol |-> U, price |-> FindItem(U).price])
                IN  /\ stocks' = tbl
                    /\ BuyGate(p, loc[p], [kind |-> "stock", stock |-> tbl[U]])
    /\ UNCHANGED <<now, vendorItems, portfolios, positions,
                   crashes, ticks, applied, response>>

\* buyStock has returned or thrown; the next call starts with new locals
LookupReturn(p) ==
    /\ pc[p] = "done"
    /\ Goto(p, [InitCacheLoc EXCEPT !.seq = loc[p].seq], "idle")
    /\ UNCHANGED <<now, vendorItems, stocks, transactions, portfolios,
                   positions, faults, crashes, ticks, applied, response>>

\* requests <<symbol, price, quantity>>: on the first page with a cached row,
\* on the first page without one, on the second page with a cached row
CacheRequests == {<<"aapl", 100, 1>>, <<"TSLA", 150, 1>>, <<"MSFT", 200, 1>>}

FirstPage == <<[symbol |-> "AAPL", price |-> 100], [symbol |-> "TSLA", price |-> 150]>>

\* age of the cached AAPL row: stale, at the edge of the window, new
CachedAges == {FiveMinutes + 1, FiveMinutes, 0}

InitCache ==
    /\ now = StartTime
    /\ vendorItems = FirstPage
    /\ \E age \in CachedAges :
          stocks = [s \in {"AAPL", "MSFT"} |->
                       IF s = "AAPL" THEN StockRow("AAPL", 99, StartTime - age)
                       ELSE StockRow("MSFT", 200, StartTime - FiveMinutes - 1)]
    /\ transactions = <<>>
    /\ portfolios = <<>>
    /\ positions = <<>>
    /\ applied = <<>>
    /\ pc = [p \in Procs |-> "idle"]
    /\ loc = [p \in Procs |-> InitCacheLoc]
    /\ faults = 0
    /\ crashes = 0
    /\ ticks = 0
    /\ response = NoResponse

NextCache ==
    \/ \E r \in CacheRequests : LookupCall(1, r[1], r[2], r[3], "u1")
    \/ \E f \in BOOLEAN : LookupFind(1, f)
    \/ \E outcome \in VendorOutcomes : ListingAttempt(1, outcome)
    \/ \E W \in SUBSET (1..Len(FirstPage)) : CacheWrite(1, W)
    \/ \E f \in BOOLEAN : LookupUpsert(1, f)
    \/ BuyCreateTransaction(1, FALSE)
    \/ \E ok \in BOOLEAN : BuyVendorAttempt(1, ok)
    \/ BuyMarkSuccess(1, FALSE)
    \/ BuyMarkFailed(1, FALSE)
    \/ PortfolioFindFirst(1, FALSE)
    \/ PortfolioCreate(1, FALSE)
    \/ PositionFindUnique(1, FALSE)
    \/ PositionCreate(1, FALSE)
    \/ PositionUpdate(1, FALSE)
    \/ LookupReturn(1)
    \/ Tick

SpecCache == InitCache /\ [][NextCache]_vars

(***************************************************************************)
(* Claims on the price cache and the vendor operations                     *)
(***************************************************************************)
\* the row read by findUnique was within the freshness window when tested
FreshAtCheck(l) ==
    /\ l.found # NoRow
    /\ l.found.lastUpdated >= l.checkedAt - FiveMinutes

RefreshStarted(p) ==
    pc[p] \in {"listing", "cache", "match"} \/ loc[p].refresh # "none"

\* C12: getStockBySymbol returns a stored row that is within the 5-minute
\* window without any vendor call; a lookup that finds a row older than the
\* window (or none) attempts a vendor refresh, and the row it then returns
\* is the one written after the refresh, never the old one.
C12_Staleness ==
    \A p \in Procs :
        /\ loc[p].lookup = "stock" =>
              IF FreshAtCheck(loc[p])
              THEN loc[p].refresh = "none" /\ loc[p].returned = loc[p].found
              ELSE /\ loc[p].refresh = "ok"
                   /\ loc[p].returned.lastUpdated >= loc[p].checkedAt
        /\ RefreshStarted(p) => ~FreshAtCheck(loc[p])

\* a row written by an earlier refresh is served from the cache, and the
\* clock has advanced since
C12_Witness ==
    \E p \in Procs :
        /\ loc[p].lookup = "stock"
        /\ loc[p].refresh = "none"
        /\ loc[p].symbol = "aapl"
        /\ loc[p].found.price = 100
        /\ ticks > 0

RefreshFailed(p) == loc[p].refresh \in {"unavailable", "badResponse"}

\* C13: when the vendor refresh of a price lookup fails, getStockBySymbol
\* and buyStock end with the vendor failure, whether or not a stale row was
\* found; no row is returned, no price reaches the tolerance check and no
\* transaction is opened.
C13_FailedRefreshSurfaced ==
    \A p \in Procs :
        RefreshFailed(p) =>
            /\ pc[p] = "done"
            /\ loc[p].lookup = "threw"
            /\ loc[p].result = Threw(IF loc[p].refresh = "unavailable"
                                     THEN VendorUnavailable
                                     ELSE InvalidVendorResponse)
            /\ loc[p].returned = NoRow
            /\ loc[p].currentPrice = 0
            /\ loc[p].txId = 0

\* the refresh fails after the retries while a stale row is stored
C13_Witness ==
    \E p \in Procs :
        /\ loc[p].refresh = "unavailable"
        /\ loc[p].found # NoRow
        /\ ToUpperCase(loc[p].symbol) \in DOMAIN stocks
        /\ pc[p] = "done"

\* C14: after a successful refresh the lookup reports NotFound only if no
\* Stock row for the requested symbol is stored; a symbol that has a stored
\* row is never reported NotFound.
C14_NotFoundOnlyIfAbsent ==
    \A p \in Procs :
        (loc[p].refresh = "ok" /\ LookupNull(p)) =>
            ToUpperCase(loc[p].symbol) \notin DOMAIN stocks

RefreshDone(p) == loc[p].refresh = "ok" /\ pc[p] # "cache"

\* C15: once a lookup has triggered a successful refresh, every symbol of
\* the vendor's listing, all its pages included, has a stored Stock row with
\* the vendor's price and a lastUpdated not older than the refresh.
C15_RefreshAllSymbols ==
    \A p \in Procs :
        RefreshDone(p) =>
            \A i \in 1..Len(FullListing) :
                LET U == ToUpperCase(FullListing[i].symbol)
                IN  /\ U \in DOMAIN stocks
                    /\ stocks[U].price = FullListing[i].price
                    /\ stocks[U].lastUpdated >= loc[p].refreshedAt

Moved(p) == <<pc[p], loc[p]>>' # <<pc[p], loc[p]>>

\* C16: a vendor operation (listing request, buy request) makes at most
\* retryAttempts + 1 attempts: an attempt is made only while at most
\* retryAttempts earlier attempts of the operation failed, every repeated
\* attempt follows a failed one, none follows a successful one, and the
\* attempt that fails after retryAttempts failures ends the operation as
\* failed.
C16_BoundedRetry ==
    /\ [](\A p \in Procs :
            pc[p] \in {"listing", "vendor"} => loc[p].attempts <= retryAttempts)
    /\ [][\A p \in Procs :
            /\ (pc[p] = "listing" /\ pc'[p] = "listing" /\ Moved(p)) =>
                  /\ loc'[p].attempts = loc[p].attempts + 1
                  /\ loc'[p].lastError \in {"transient", "client"}
            /\ (pc[p] = "vendor" /\ pc'[p] = "vendor" /\ Moved(p)) =>
                  /\ loc'[p].attempts = loc[p].attempts + 1
                  /\ ~loc'[p].confirmed
            /\ (pc'[p] = "listing" /\ Moved(p)) =>
                  /\ pc[p] \in {"find", "listing"}
                  /\ loc[p].refresh = "none"
            /\ (pc'[p] = "vendor" /\ Moved(p)) =>
                  /\ pc[p] \in {"createTx", "vendor"}
                  /\ ~loc[p].confirmed
            /\ (pc[p] = "listing" /\ loc[p].attempts = retryAttempts /\ Moved(p)) =>
                  \/ loc'[p].refresh = "ok" /\ pc'[p] = "cache"
                  \/ /\ RefreshFailed(p)'
                     /\ pc'[p] = "done"
                     /\ loc'[p].result.kind = "threw"
            /\ (pc[p] = "vendor" /\ loc[p].attempts = retryAttempts /\ Moved(p)) =>
                  \/ loc'[p].confirmed /\ pc'[p] = "markSuccess"
                  \/ loc'[p].vendorFailed /\ pc'[p] = "markFailed"]_vars

\* an earlier buy request failed after its retries, and a listing request
\* has failed retryAttempts times and makes its last attempt
C16_Witness ==
    \E p \in Procs :
        /\ pc[p] = "listing"
        /\ loc[p].attempts = retryAttempts
        /\ \E i \in 1..Len(transactions) :
              /\ transactions[i].status = "FAILED"
              /\ transactions[i].errorMessage = VendorBuyError

\* C17: a vendor request that was answered with a 4xx status is not
\* repeated: the operation fails after that one attempt, and only network
\* errors, 5xx answers and timeouts are followed by another attempt.
C17_NoRetryOnClientError ==
    \A p \in Procs :
        pc[p] = "listing" => loc[p].lastError # "client"

\* C18: a failed vendor operation, listing request or buy request, does not
\* raise an exception: its caller receives the failure as a value, and a
\* call whose vendor operation failed ends by returning, not by throwing.
C18_VendorFailureIsAValue ==
    \A p \in Procs :
        (RefreshFailed(p) \/ loc[p].vendorFailed) =>
            /\ loc[p].lookup # "threw"
            /\ pc[p] = "done" => loc[p].result.kind = "returned"

\* C19: every buyStock call that has created its PENDING transaction ends
\* by returning a result; when the result is success = false it carries a
\* message and the id of that transaction, whatever failed after the row
\* was created (vendor request, ledger write, portfolio write).
C19_FailureReportsTransaction ==
    \A p \in Procs :
        (pc[p] = "done" /\ loc[p].txId # 0) =>
            /\ loc[p].result.kind = "returned"
            /\ ~loc[p].result.success =>
                  /\ loc[p].result.message # NoMessage
                  /\ loc[p].result.transactionId = loc[p].txId

\* the vendor buy request of call p has been sent
BuySent(p) ==
    \/ pc[p] \in {"vendor", "markSuccess", "markFailed"}
    \/ loc[p].confirmed
    \/ loc[p].vendorFailed

\* C20: in every state in which the vendor buy request of a call has been
\* sent, the ledger holds the Transaction row of that request, with
\* totalAmount = requested price * quantity, PENDING while the vendor has
\* not answered; rows are never removed, and the row is still there when
\* the process stops during or after the vendor request.
C20_PendingBeforeVendor ==
    /\ [](\A p \in Procs :
            BuySent(p) =>
                /\ loc[p].txId \in 1..Len(transactions)
                /\ LET row == transactions[loc[p].txId]
                   IN  /\ row.call = p
                       /\ row.userId = loc[p].userId
                       /\ row.stockId = loc[p].stockId
                       /\ row.type = "BUY"
                       /\ row.quantity = loc[p].quantity
                       /\ row.price = loc[p].price
                       /\ row.totalAmount =
                             FFromRatio(loc[p].price * loc[p].quantity, 100)
                       /\ pc[p] = "vendor" => row.status = "PENDING")
    /\ [][/\ Len(transactions') >= Len(transactions)
          /\ \A p \in Procs :
                (BuySent(p) /\ pc'[p] = "crashed") =>
                    /\ TxOf(p) # {}
                    /\ transactions' = transactions]_vars

\* the process stopped while the vendor request was outstanding and the
\* PENDING row of the request is in the ledger
C20_Witness ==
    \E p \in Procs :
        /\ pc[p] = "crashed"
        /\ \E i \in TxOf(p) : transactions[i].status = "PENDING"

(***************************************************************************)
(* Specification SpecLive: the buy flow of Spec under the scheduling of    *)
(* the Node event loop. A continuation whose storage operation has been    *)
(* answered runs, so leaving a storage step is weakly fair. The         *)
(* answer to an HTTP request comes from the vendor: the requests are made  *)
(* with no timeout option (191-198, 39-44) and HttpModule is registered    *)
(* with its defaults, so nothing in the program ends an attempt the        *)
(* vendor does not answer, and BuyVendorAttempt has no fairness.           *)
(***************************************************************************)
StoragePcs == {"createTx", "markSuccess", "markFailed", "pfFind", "pfCreate",
               "posFind", "posUpdate", "posCreate"}

Labels == StoragePcs \cup {"idle", "vendor", "done", "crashed"}

\* the storage operation call p waits for is answered, with its result or
\* with an error, and the call leaves the step it is at
StorageAnswered(p) ==
    /\ pc[p] \in StoragePcs
    /\ \E label \in Labels \ {pc[p]} : pc' = [pc EXCEPT ![p] = label]

SpecLive == Spec /\ \A p \in Procs : WF_pc(StorageAnswered(p))

\* C21: every buyStock call that is running eventually ends, by returning,
\* by throwing or with the process stopping, even when the vendor does not
\* answer; so the PENDING transaction of a running buy does not stay
\* PENDING with its call still waiting.
C21_BuyEventuallyEnds ==
    \A p \in Procs : Running(p) ~> ~Running(p)

\* C22: a user who had no portfolio has, after any number of
\* vendor-confirmed buys, concurrent ones included, exactly one portfolio,
\* and all of the user's positions are in it.
C22_OneDefaultPortfolio ==
    \A userId \in Users :
        /\ Cardinality(UserPortfolios(userId)) <= 1
        /\ \A k1, k2 \in DOMAIN positions :
              (portfolios[k1[1]].userId = userId /\ portfolios[k2[1]].userId = userId) => k1[1] = k2[1]

(***************************************************************************)
(* TransactionsService: getTransactionsForDateRange,                       *)
(* getDailyTransactionStats. Dates are in minutes, like now.               *)
(***************************************************************************)
MinutesPerDay == 1440

\* the date is taken at any time of the day
StartOfDayUnset(date) == date

\* date.setHours(0, 0, 0, 0)
StartOfDay(date) == date - (date % MinutesPerDay)

\* date.setHours(23, 59, 59, 999): the last instant of the same day
EndOfDay(date) == StartOfDay(date) + MinutesPerDay - 1

\* lines 248-261: the TransactionDto of row id
TransactionDto(id) ==
    LET transaction == transactions[id]
    IN  [id |-> id, userId |-> transaction.userId, stockId |-> transaction.stockId,
         type |-> transaction.type, quantity |-> transaction.quantity,
         price |-> transaction.price, total |-> transaction.totalAmount,
         status |-> transaction.status, errorMessage |-> transaction.errorMessage,
         createdAt |-> transaction.createdAt, processedAt |-> transaction.processedAt]

\* lines 234-246: findMany({ where: { createdAt: { gte, lte } },
\* orderBy: { createdAt: 'desc' } }); rows are created in the order of
\* their ids, so the latest row is the one with the greatest id
RECURSIVE findManyCreatedBetween(_, _, _)
findManyCreatedBetween(startDate, endDate, id) ==
    IF id = 0 THEN <<>>
    ELSE IF /\ transactions[id].createdAt >= startDate
            /\ transactions[id].createdAt <= endDate
         THEN <<TransactionDto(id)>> \o findManyCreatedBetween(startDate, endDate, id - 1)
         ELSE findManyCreatedBetween(startDate, endDate, id - 1)

IsSuccessful(t) == t.status = "SUCCESS"
IsFailed(t) == t.status = "FAILED"
IsPending(t) == t.status = "PENDING"

\* every row goes to the group successful, whatever its status
getTransactionsForDateRangeUngrouped(startDate, endDate) ==
    LET mappedTransactions ==
            findManyCreatedBetween(startDate, endDate, Len(transactions))
    IN  [successful |-> mappedTransactions,
         failed     |-> SelectSeq(mappedTransactions, IsFailed),
         pending    |-> SelectSeq(mappedTransactions, IsPending)]

\* lines 263-267: filter by status
getTransactionsForDateRange(startDate, endDate) ==
    LET mappedTransactions ==
            findManyCreatedBetween(startDate, endDate, Len(transactions))
    IN  [successful |-> SelectSeq(mappedTransactions, IsSuccessful),
         failed     |-> SelectSeq(mappedTransactions, IsFailed),
         pending    |-> SelectSeq(mappedTransactions, IsPending)]

\* reduce((sum, t) => sum + t.quantity, 0)
RECURSIVE SumOfQuantity(_)
SumOfQuantity(ts) ==
    IF ts = <<>> THEN 0 ELSE SumOfQuantity(SubSeq(ts, 1, Len(ts) - 1)) + ts[Len(ts)].quantity

\* reduce((sum, t) => sum + t.total, 0)
RECURSIVE SumOfTotal(_)
SumOfTotal(ts) ==
    IF ts = <<>> THEN FZero
    ELSE FAdd(SumOfTotal(SubSeq(ts, 1, Len(ts) - 1)), ts[Len(ts)].total)

\* totalValue adds the totals of the failed and pending transactions too
getDailyTransactionStatsAllValue(date) ==
    LET startOfDay == StartOfDay(date)
        endOfDay   == EndOfDay(date)
        grouped    == getTransactionsForDateRange(startOfDay, endOfDay)
        allTransactions == grouped.successful \o grouped.failed \o grouped.pending
    IN  [totalTransactions      |-> Len(allTransactions),
         successfulTransactions |-> Len(grouped.successful),
         failedTransactions     |-> Len(grouped.failed),
         pendingTransactions    |-> Len(grouped.pending),
         totalVolume            |-> SumOfQuantity(allTransactions),
         totalValue             |-> SumOfTotal(allTransactions)]

\* lines 286-305
getDailyTransactionStats(date) ==
    LET startOfDay == StartOfDay(date)
        endOfDay   == EndOfDay(date)
        grouped    == getTransactionsForDateRange(startOfDay, endOfDay)
        allTransactions == grouped.successful \o grouped.failed \o grouped.pending
    IN  [totalTransactions      |-> Len(allTransactions),
         successfulTransactions |-> Len(grouped.successful),
         failedTransactions     |-> Len(grouped.failed),
         pendingTransactions    |-> Len(grouped.pending),
         totalVolume            |-> SumOfQuantity(allTransactions),
         totalValue             |-> SumOfTotal(grouped.successful)]

Answer(op, args, result) ==
    [op |-> op, id |-> 0, ok |-> TRUE, error |-> NoMessage,
     args |-> args, result |-> result]

DateRangeCall(startDate, endDate) ==
    /\ response' = Answer("getTransactionsForDateRange", <<startDate, endDate>>,
                          getTransactionsForDateRange(startDate, endDate))
    /\ UNCHANGED <<now, vendorItems, stocks, transactions, portfolios, positions,
                   pc, loc, faults, crashes, ticks, applied>>

DailyStatsCall(date) ==
    /\ response' = Answer("getDailyTransactionStats", <<date>>,
                          getDailyTransactionStats(date))
    /\ UNCHANGED <<now, vendorItems, stocks, transactions, portfolios, positions,
                   pc, loc, faults, crashes, ticks, applied>>

\* the clock passes midnight
TickDay ==
    /\ ticks < MaxTicks
    /\ ticks' = ticks + 1
    /\ now' = now + MinutesPerDay
    /\ UNCHANGED <<vendorItems, stocks, transactions, portfolios, positions,
                   pc, loc, faults, crashes, applied, response>>

(***************************************************************************)
(* Specification SpecReports: the ledger is written and read by date.      *)
(***************************************************************************)
\* two times of the first day, one of the second
ReportDates == {StartTime, StartTime + 700, StartTime + MinutesPerDay}

RangeBounds == {StartTime - 1, StartTime, StartTime + MinutesPerDay}

NextReports ==
    \/ \E quantity \in {1, 2} : createTransaction("u1", "AAPL", "BUY", quantity, 100)
    \/ \E id \in 1..MaxTx, status \in Terminal :
          updateTransactionStatus(id, status, Undefined)
    \/ \E startDate, endDate \in RangeBounds : DateRangeCall(startDate, endDate)
    \/ \E date \in ReportDates : DailyStatsCall(date)
    \/ TickDay

SpecReports == InitFill /\ [][NextReports]_vars

DayOf(date) == date \div MinutesPerDay

IsStats(r) == r.op = "getDailyTransactionStats"

EndToEndCached == {17550, 17500, 17400, 10000}
EndToEndRequests == {<<17500, 10>>, <<17500, 1>>, <<17550, 10>>, <<17000, 10>>, <<10000, 10>>}

InitEndToEnd ==
    /\ now = StartTime
    /\ vendorItems = <<>>
    /\ \E P \in EndToEndCached :
          stocks = [s \in {"AAPL"} |-> StockRow("AAPL", P, StartTime)]
    /\ EmptyTables

NextEndToEnd ==
    \/ \E r \in EndToEndRequests :
          BuyLookup(1, "AAPL", r[1], r[2], "u1", "ok", "none", {})
    \/ \E f \in BOOLEAN : BuyCreateTransaction(1, f)
    \/ \E ok \in BOOLEAN : BuyVendorAttempt(1, ok)
    \/ \E f \in BOOLEAN : BuyMarkSuccess(1, f)
    \/ \E f \in BOOLEAN : BuyMarkFailed(1, f)
    \/ \E f \in BOOLEAN : PortfolioFindFirst(1, f)
    \/ \E f \in BOOLEAN : PortfolioCreate(1, f)
    \/ \E f \in BOOLEAN : PositionFindUnique(1, f)
    \/ \E f \in BOOLEAN : PositionCreate(1, f)

SpecEndToEnd == InitEndToEnd /\ [][NextEndToEnd]_vars

\* the call of the scenario: AAPL cached at 175.50, request 175.00 x 10
Scenario(p) ==
    /\ loc[p].currentPrice = 17550
    /\ loc[p].price = 17500
    /\ loc[p].quantity = 10

\* C24: with AAPL cached fresh at 175.50, a buy at 175.00 of quantity 10 is
\* admitted; with a confirming vendor and working storage its transaction
\* is PENDING until the vendor has confirmed and SUCCESS afterwards, and
\* the call ends with success and a new position of quantity 10 at
\* averagePrice 175.00, the requested price.
C24_EndToEndBuy ==
    \A p \in Procs :
        Scenario(p) =>
            /\ ~Rejected(p)
            /\ pc[p] \in {"vendor", "markSuccess"} =>
                  transactions[loc[p].txId].status = "PENDING"
            /\ (loc[p].confirmed /\ faults = 0 /\ pc[p] \notin {"vendor", "markSuccess"}) =>
                  transactions[loc[p].txId].status = "SUCCESS"
            /\ (loc[p].confirmed /\ faults = 0 /\ pc[p] = "done") =>
                  /\ loc[p].result = Returned(TRUE, NoMessage, loc[p].txId)
                  /\ DOMAIN positions = {<<1, "AAPL">>}
                  /\ positions[<<1, "AAPL">>] =
                        [quantity |-> 10, averagePrice |-> FFromRatio(17500, 100)]
                  /\ transactions[loc[p].txId].totalAmount = FFromInt(1750)

C24_Witness ==
    \E p \in Procs :
        /\ Scenario(p)
        /\ loc[p].confirmed
        /\ faults = 0
        /\ pc[p] = "done"
        /\ loc[p].result.success

\* call p passed the tolerance gate and its prisma.transaction.create
\* was carried out
Opened(p) == loc[p].txId # 0

RECURSIVE CountOpened(_)
CountOpened(S) ==
    IF S = {} THEN 0
    ELSE LET p == CHOOSE x \in S : TRUE
         IN  Cardinality(TxOf(p)) + CountOpened(S \ {p})

\* C25: every admitted buyStock call whose create was carried out has a
\* Transaction row of its own, also when the calls are identical: the rows
\* of different calls have different ids, and the ledger holds exactly one
\* row per such call.
C25_NoDeduplication ==
    /\ \A p \in Procs :
          /\ Opened(p) =>
                /\ loc[p].txId \in 1..Len(transactions)
                /\ TxOf(p) = {loc[p].txId}
          /\ Cardinality(TxOf(p)) <= 1
    /\ \A p, q \in Procs :
          (p # q /\ Opened(p) /\ Opened(q)) => loc[p].txId # loc[q].txId
    /\ Len(transactions) = CountOpened(Procs)

\* every call has made the same request and each has its row
C25_Witness ==
    /\ \A p \in Procs :
          /\ Opened(p)
          /\ loc[p].symbol = "aapl" /\ loc[p].price = 100 /\ loc[p].quantity = 1
    /\ Len(transactions) = NProcs

(***************************************************************************)
(* Concurrent price lookups: several buyStock calls look the same symbol   *)
(* up while the cache has to be refreshed; every request is far from the   *)
(* price, so each call ends at the tolerance test.                         *)
(***************************************************************************)
\* what the vendor lists: upper-case symbols with prices; a mixed-case
\* symbol and an item with price 0
Listings == {FirstPage,
             <<[symbol |-> "Aapl", price |-> 100], [symbol |-> "zzzz", price |-> 0]>>}

\* the error of the upsert that lost the race leaves updateStockCache and
\* ends the call
CacheWriteRacedUncaught(p, W) ==
    /\ pc[p] = "cache"
    /\ W \subseteq AllItems
    /\ \A i \in AllItems \ W :
          LET U == ToUpperCase(vendorItems[i].symbol)
          IN  /\ U \in DOMAIN stocks
              /\ stocks[U].price = vendorItems[i].price
              /\ stocks[U].lastUpdated >= loc[p].checkedAt
              /\ \E q \in Procs \ {p} : loc[q].refreshedAt # NoTime
    /\ Fault(W # AllItems)
    /\ stocks' = updateStockCache(W)
    /\ IF W = AllItems
       THEN Goto(p, [loc[p] EXCEPT !.refreshedAt = now], "match")
            /\ UNCHANGED transactions
       ELSE BuyGate(p, loc[p], [kind |-> "threw", error |-> UniqueViolation])
    /\ UNCHANGED <<now, vendorItems, portfolios, positions,
                   crashes, ticks, applied, response>>

\* lines 71, 258-276: updateStockCache while other calls refresh; an upsert
\* outside W has lost the insert of its row to the upsert of another call and
\* failed, and the error is logged
CacheWriteRaced(p, W) ==
    /\ \A i \in AllItems \ W :
          LET U == ToUpperCase(vendorItems[i].symbol)
          IN  /\ U \in DOMAIN stocks
              /\ stocks[U].price = vendorItems[i].price
              /\ stocks[U].lastUpdated >= loc[p].checkedAt
              /\ \E q \in Procs \ {p} : loc[q].refreshedAt # NoTime
    /\ CacheWrite(p, W)

InitStocks ==
    /\ now = StartTime
    /\ vendorItems \in Listings
    /\ \/ stocks = [s \in {"AAPL"} |-> StockRow("AAPL", 99, StartTime - FiveMinutes - 1)]
       \/ stocks = [s \in {} |-> NoRow]
    /\ transactions = <<>>
    /\ portfolios = <<>>
    /\ positions = <<>>
    /\ applied = <<>>
    /\ pc = [p \in Procs |-> "idle"]
    /\ loc = [p \in Procs |-> InitCacheLoc]
    /\ faults = 0
    /\ crashes = 0
    /\ ticks = 0
    /\ response = NoResponse

NextStocks ==
    \E p \in Procs :
       \/ \E symbol \in {"aapl", "AAPL"} : LookupCall(p, symbol, 1, 1, "u1")
       \/ LookupFind(p, FALSE)
       \/ ListingAttempt(p, "ok")
       \/ \E W \in SUBSET AllItems : CacheWriteRaced(p, W)
       \/ LookupUpsert(p, FALSE)
       \/ LookupReturn(p)

SpecStocks == InitStocks /\ [][NextStocks]_vars

\* the lookup of call p has returned a row
LookedUp(p) == pc[p] = "done" /\ loc[p].lookup = "stock"

\* C26: after any sequence of listing fetches and price lookups every stored
\* Stock row has a price above 0 and an upper-case symbol, the table has one
\* row per symbol, and a lookup in any letter case returns the row of the
\* upper-case symbol.
C26_StockInvariants ==
    /\ \A U \in DOMAIN stocks :
          /\ stocks[U].price > 0
          /\ stocks[U].symbol = ToUpperCase(stocks[U].symbol)
          /\ stocks[U].symbol = U
    /\ \A p \in Procs :
          LookedUp(p) => loc[p].returned.symbol = ToUpperCase(loc[p].symbol)


\* some row has been written since the start
Refreshed == \E U \in DOMAIN stocks : ~IsStale(stocks[U])

TransactionNotFound == "Transaction not found"

\* GlobalExceptionFilter.catch: the status of an HttpException, 500 for
\* any other error
HttpStatusOf(error) ==
    CASE error = TransactionNotFound   -> 404
      [] error = StockNotFound         -> 404
      [] error = VendorUnavailable     -> 503
      [] error = InvalidVendorResponse -> 502
      [] OTHER                         -> 500

\* C28: updateTransactionStatus with an id that is not in the ledger fails
\* with a NotFound error, changes no transaction and creates none.
C28_AbsentIdNotFound ==
    [][(/\ response'.op = "updateTransactionStatus"
        /\ response'.id \notin 1..Len(transactions))
       => /\ ~response'.ok
          /\ HttpStatusOf(response'.error) = 404
          /\ transactions' = transactions]_vars

\* C29: the vendor listing fetch (getStocksFromVendor, getAllStocks) has no
\* effect on storage: while a call is inside the fetch, no step changes the
\* stored Stock rows or the transaction ledger.
C29_FetchHasNoSideEffect ==
    [][(\E p \in Procs : pc[p] \in {"listing", "cache"})
       => (stocks' = stocks /\ transactions' = transactions)]_vars

\* the positions of transaction id in a group of the answer
Occurrences(group, id) == {i \in 1..Len(group) : group[i].id = id}

\* C30: getTransactionsForDateRange(start, end) partitions the ledger slice:
\* a transaction with start <= createdAt <= end is once in the group of its
\* status and in no other group, and a transaction created outside the range
\* is in no group.
C30_DateRangePartition ==
    response.op = "getTransactionsForDateRange" =>
        LET startDate == response.args[1]
            endDate   == response.args[2]
            groups    == [s \in Statuses |->
                            CASE s = "SUCCESS" -> response.result.successful
                              [] s = "FAILED"  -> response.result.failed
                              [] s = "PENDING" -> response.result.pending]
        IN  /\ \A id \in 1..Len(transactions), s \in Statuses :
                  Cardinality(Occurrences(groups[s], id)) =
                      IF /\ startDate <= transactions[id].createdAt
                         /\ transactions[id].createdAt <= endDate
                         /\ transactions[id].status = s
                      THEN 1 ELSE 0
            /\ \A s \in Statuses : \A i \in 1..Len(groups[s]) :
                  groups[s][i].id \in 1..Len(transactions)

\* the answer for a range that ends at the time the first transaction was
\* created: that one is listed as successful, the one of the next day is not
C30_Witness ==
    /\ response.op = "getTransactionsForDateRange"
    /\ response.args[2] = StartTime
    /\ Len(transactions) = 2
    /\ transactions[1].createdAt = StartTime
    /\ transactions[2].createdAt > StartTime
    /\ Len(response.result.successful) = 1
    /\ response.result.failed = <<>>
    /\ response.result.pending = <<>>

\* the transactions created on the day of date
CreatedOn(date) ==
    {id \in 1..Len(transactions) : DayOf(transactions[id].createdAt) = DayOf(date)}

RECURSIVE QuantityOf(_)
QuantityOf(S) ==
    IF S = {} THEN 0
    ELSE LET id == CHOOSE x \in S : \A y \in S : x <= y
         IN  transactions[id].quantity + QuantityOf(S \ {id})

RECURSIVE AmountOf(_)
AmountOf(S) ==
    IF S = {} THEN FZero
    ELSE LET id == CHOOSE x \in S : \A y \in S : x <= y
         IN  FAdd(transactions[id].totalAmount, AmountOf(S \ {id}))

\* C31: getDailyTransactionStats counts the transactions created that day
\* by status, totalTransactions being the sum of the three counts;
\* totalVolume is the sum of quantity over all of them and totalValue the
\* sum of totalAmount over the SUCCESS ones only.
C31_DailyStats ==
    IsStats(response) =>
        LET stats == response.result
            day   == CreatedOn(response.args[1])
            With(status) == {id \in day : transactions[id].status = status}
        IN  /\ stats.successfulTransactions = Cardinality(With("SUCCESS"))
            /\ stats.failedTransactions = Cardinality(With("FAILED"))
            /\ stats.pendingTransactions = Cardinality(With("PENDING"))
            /\ stats.totalTransactions = stats.successfulTransactions
                  + stats.failedTransactions + stats.pendingTransactions
            /\ stats.totalTransactions = Cardinality(day)
            /\ stats.totalVolume = QuantityOf(day)
            /\ stats.totalValue = AmountOf(With("SUCCESS"))

\* statistics of a day with one successful transaction and one that is not
C31_Witness ==
    /\ IsStats(response)
    /\ response.result.totalTransactions = 2
    /\ response.result.successfulTransactions = 1
    /\ response.result.totalVolume > 1

(***************************************************************************)
(* Specification SpecPages: the ledger of two users is read page by page.  *)
(***************************************************************************)
UserIds(userId) == {id \in 1..Len(transactions) : transactions[id].userId = userId}

\* lines 150-159: findMany({ where: { userId }, orderBy: { createdAt: 'desc' } });
\* the storage engine returns rows with equal createdAt in any order
findManyOfUser(userId) ==
    LET N == Cardinality(UserIds(userId))
    IN  {order \in [1..N -> UserIds(userId)] :
            /\ \A i, j \in 1..N : i # j => order[i] # order[j]
            /\ \A i, j \in 1..N :
                  i < j => transactions[order[i]].createdAt
                              >= transactions[order[j]].createdAt}

\* skip: offset, take: limit, then the map to TransactionDto (lines 158-174)
getUserTransactions(order, limit, offset) ==
    LET rest == IF Len(order) > offset THEN Len(order) - offset ELSE 0
    IN  [i \in 1..(IF rest < limit THEN rest ELSE limit) |->
            TransactionDto(order[i + offset])]

UserTransactionsCall(userId, limit, offset) ==
    /\ \E order \in findManyOfUser(userId) :
          response' = Answer("getUserTransactions", <<userId, limit, offset>>,
                             getUserTransactions(order, limit, offset))
    /\ UNCHANGED <<now, vendorItems, stocks, transactions, portfolios, positions,
                   pc, loc, faults, crashes, ticks, applied>>

NextPages ==
    \/ \E userId \in {"u1", "u2"} : createTransaction(userId, "AAPL", "BUY", 1, 100)
    \/ \E userId \in {"u1", "u2"}, limit \in 1..2, offset \in 0..2 :
          UserTransactionsCall(userId, limit, offset)
    \/ Tick

SpecPages == InitFill /\ [][NextPages]_vars

IsPage(r) == r.op = "getUserTransactions"

IdsOf(page) == {page[i].id : i \in 1..Len(page)}

\* the page holds transactions of the user only, newest first, none twice,
\* and as many as the ledger has after the offset, up to the limit
PageOf(r) ==
    LET page == r.result
        rest == Cardinality(UserIds(r.args[1])) - r.args[3]
    IN  /\ \A i \in 1..Len(page) : page[i].userId = r.args[1]
        /\ \A i, j \in 1..Len(page) :
              i < j => page[i].createdAt >= page[j].createdAt /\ page[i].id # page[j].id
        /\ Len(page) = IF rest < 0 THEN 0 ELSE IF rest < r.args[2] THEN rest ELSE r.args[2]

\* r2 asks for the page after the page of r1
Consecutive(r1, r2) ==
    /\ IsPage(r1) /\ IsPage(r2)
    /\ r2.args[1] = r1.args[1]
    /\ r2.args[2] = r1.args[2]
    /\ r2.args[3] = r1.args[3] + r1.args[2]

\* C32: getUserTransactions(userId, limit, offset) returns transactions of
\* that user only, newest first, at most limit of them after skipping
\* offset; of two consecutive pages read while the ledger is unchanged, the
\* second holds no transaction of the first and none newer than the first's.
C32_Pages ==
    [][(IsPage(response') /\ response' # response) =>
          /\ PageOf(response')
          /\ Consecutive(response, response') =>
                /\ IdsOf(response.result) \cap IdsOf(response'.result) = {}
                /\ \A i \in 1..Len(response.result), j \in 1..Len(response'.result) :
                      response.result[i].createdAt >= response'.result[j].createdAt]_vars

\* C33: a listing fetch answered with a body status other than 200 fails
\* with the bad-gateway error at once, is not retried and changes no Stock
\* row; a listing fetch fails with the service-unavailable error only after
\* retryAttempts failed requests and one more.
C33_BadResponseVsUnavailable ==
    [][\A p \in Procs :
          (pc[p] = "listing" /\ Moved(p)) =>
              /\ stocks' = stocks
              /\ pc'[p] = "listing" => loc'[p].lastError # "badStatus"
              /\ loc'[p].refresh = "badResponse" =>
                    /\ pc'[p] = "done"
                    /\ loc'[p].result = Threw(InvalidVendorResponse)
                    /\ HttpStatusOf(loc'[p].result.message) = 502
              /\ loc'[p].refresh = "unavailable" =>
                    /\ loc[p].attempts = retryAttempts
                    /\ pc'[p] = "done"
                    /\ loc'[p].result = Threw(VendorUnavailable)
                    /\ HttpStatusOf(loc'[p].result.message) = 503]_vars

\* the listing fetch of a later call has failed on a body status while a
\* stale row is stored
C33_Witness ==
    \E p \in Procs :
        /\ pc[p] = "done"
        /\ loc[p].refresh = "badResponse"
        /\ loc[p].found # NoRow
        /\ loc[p].seq > 1

NextShared ==
    \/ \E r \in BuyRequests : BuyLookup(1, r[1], r[2], r[3], "u1", "ok", "none", {1})
    \/ BuyCreateTransaction(1, FALSE)
    \/ \E ok \in BOOLEAN : BuyVendorAttempt(1, ok)
    \/ BuyMarkSuccess(1, FALSE)
    \/ BuyMarkFailed(1, FALSE)
    \/ PortfolioFindFirst(1, FALSE)
    \/ PortfolioCreate(1, FALSE)
    \/ PositionFindUnique(1, FALSE)
    \/ PositionCreate(1, FALSE)
    \/ /\ \A i \in 1..Len(transactions) : transactions[i].call # 0
       /\ createTransaction("u1", "AAPL", "SELL", 3, 10)
    \/ \E id \in 1..(MaxTx + 1), status \in Statuses :
          updateTransactionStatus(id, status, Undefined)
    \/ Tick

SpecShared == Init /\ [][NextShared]_vars

\* C35: every transaction has totalAmount = price * quantity, whether
\* buyStock or createTransaction created it, and every transaction is
\* created with status PENDING.
C35_AmountAndInitialStatus ==
    /\ [](\A i \in 1..Len(transactions) :
            transactions[i].totalAmount =
                FMul(FromCents(transactions[i].price), FFromInt(transactions[i].quantity)))
    /\ [][Len(transactions') # Len(transactions) =>
            /\ Len(transactions') = Len(transactions) + 1
            /\ transactions'[Len(transactions')].status = "PENDING"]_vars

\* the ledger holds a transaction of buyStock and one of createTransaction
\* for several shares, both transitioned since
C35_Witness ==
    \E i, j \in 1..Len(transactions) :
        /\ transactions[i].call = 1
        /\ transactions[j].call = 0
        /\ transactions[j].quantity = 3
        /\ transactions[i].status # "PENDING"
        /\ transactions[j].status # "PENDING"

\* C36: in every reachable state a transaction has processedAt set if and
\* only if its status is SUCCESS or FAILED.
C36_ProcessedIffTerminal ==
    \A i \in 1..Len(transactions) :
        transactions[i].processedAt # NoTime <=> transactions[i].status \in Terminal

\* a terminal transaction always has processedAt
ProcessedWhenTerminal ==
    \A i \in 1..Len(transactions) :
        transactions[i].status \in Terminal => transactions[i].processedAt # NoTime

\* C37: the ledger is append-only: no step removes a transaction, and no
\* step changes the id, userId, stockId, type, quantity, price, totalAmount
\* or createdAt of a transaction; the id is the position in the ledger.
C37_AppendOnly ==
    [][/\ Len(transactions') >= Len(transactions)
       /\ \A i \in 1..Len(transactions) :
             /\ transactions'[i].userId = transactions[i].userId
             /\ transactions'[i].stockId = transactions[i].stockId
             /\ transactions'[i].type = transactions[i].type
             /\ transactions'[i].quantity = transactions[i].quantity
             /\ transactions'[i].price = transactions[i].price
             /\ transactions'[i].totalAmount = transactions[i].totalAmount
             /\ transactions'[i].createdAt = transactions[i].createdAt
             /\ transactions'[i].call = transactions[i].call]_vars

\* a transaction of buyStock and one of createTransaction have been
\* transitioned at a later time than they were created
C37_Witness ==
    \E i, j \in 1..Len(transactions) :
        /\ transactions[i].call = 1
        /\ transactions[j].call = 0
        /\ transactions[i].processedAt > transactions[i].createdAt
        /\ transactions[j].processedAt > transactions[j].createdAt
        /\ transactions[j].status = "FAILED"

FillPricesOf(key) == {applied[k].price : k \in FillsInto(key)}

\* C38: every position has quantity >= 1 and an averagePrice between the
\* smallest and the largest price of the fills applied to it; no step
\* removes a position or lowers its quantity; positions are keyed by
\* (portfolio, stock), one row per key.
C38_PositionInvariants ==
    /\ [](\A key \in DOMAIN positions :
            /\ positions[key].quantity >= 1
            /\ \A price \in FillPricesOf(key) :
                  (\A other \in FillPricesOf(key) : price >= other)
                      => ~FGt(positions[key].averagePrice, FromCents(price))
            /\ \A price \in FillPricesOf(key) :
                  (\A other \in FillPricesOf(key) : price <= other)
                      => ~FGt(FromCents(price), positions[key].averagePrice))
    /\ [][\A key \in DOMAIN positions :
            /\ key \in DOMAIN positions'
            /\ positions'[key].quantity >= positions[key].quantity]_vars

(***************************************************************************)
(* Specification SpecPortfolios: buys fill the portfolios of two users (the *)
(* first call is made by either user, the others by u1), and portfolios    *)
(* are read by id on behalf of either user.                                *)
(***************************************************************************)
Owners == {"u1", "u2"}

\* the NotFoundException of getPortfolioById
PortfolioNotFound == "Portfolio not found"

NoPortfolio == [id |-> 0, userId |-> "", stocks |-> <<>>]

\* the portfolio is looked up by its id alone
findFirstPortfolioOfAnyUser(portfolioId, userId) ==
    IF portfolioId \in 1..Len(portfolios) THEN portfolioId ELSE 0

\* lines 187-192: prisma.portfolio.findFirst({ where: { id: portfolioId, userId } });
\* 0 stands for null
findFirstPortfolio(portfolioId, userId) ==
    IF portfolioId \in UserPortfolios(userId) THEN portfolioId ELSE 0

\* lines 183-260: findFirst, NotFoundException, then the price lookup for each
\* position of the portfolio (the only stock of the model is AAPL)
getPortfolioById(portfolioId, userId) ==
    LET portfolio == findFirstPortfolio(portfolioId, userId)
        args      == <<portfolioId, userId>>
        key       == <<portfolio, "AAPL">>
        r         == getStockBySymbol("AAPL", "ok", "none", AllItems)
    IN  IF portfolio = 0
        THEN /\ response' = [Answer("getPortfolioById", args, NoPortfolio)
                                EXCEPT !.ok = FALSE, !.error = PortfolioNotFound]
             /\ UNCHANGED stocks
        ELSE IF key \notin DOMAIN positions
        THEN /\ response' = Answer("getPortfolioById", args,
                                [id |-> portfolio, userId |-> portfolios[portfolio].userId,
                                 stocks |-> <<>>])
             /\ UNCHANGED stocks
        ELSE /\ stocks' = r.stocks
             /\ response' = Answer("getPortfolioById", args,
                                [id |-> portfolio, userId |-> portfolios[portfolio].userId,
                                 stocks |-> IF r.kind = "stock"
                                            THEN <<[stockId |-> "AAPL",
                                                    quantity |-> positions[key].quantity,
                                                    averagePrice |-> positions[key].averagePrice,
                                                    currentPrice |-> r.stock.price]>>
                                            ELSE <<>>])

GetPortfolioCall(portfolioId, userId) ==
    /\ getPortfolioById(portfolioId, userId)
    /\ UNCHANGED <<now, vendorItems, transactions, portfolios, positions,
                   pc, loc, faults, crashes, ticks, applied>>

NextPortfolios ==
    \/ \E p \in Procs :
          \E userId \in (IF p = 1 THEN Owners ELSE {"u1"}) :
             BuyLookup(p, "aapl", 100, 1, userId, "ok", "none", {1})
    \/ \E p \in Procs : BuyCreateTransaction(p, FALSE)
    \/ \E p \in Procs : BuyVendorAttempt(p, TRUE)
    \/ \E p \in Procs : BuyMarkSuccess(p, FALSE)
    \/ \E p \in Procs : PortfolioFindFirst(p, FALSE)
    \/ \E p \in Procs : PortfolioCreate(p, FALSE)
    \/ \E p \in Procs : PositionFindUnique(p, FALSE)
    \/ \E p \in Procs : PositionCreate(p, FALSE)
    \/ \E p \in Procs : PositionUpdate(p, FALSE)
    \/ \E p \in Procs : BuyMarkFailed(p, FALSE)
    \/ \E portfolioId \in 1..(NProcs + 1), userId \in Owners :
          GetPortfolioCall(portfolioId, userId)

SpecPortfolios == Init /\ [][NextPortfolios]_vars

IsPortfolioAnswer(r) == r.op = "getPortfolioById"

\* C39: getPortfolioById(portfolioId, userId) returns a portfolio only when
\* it belongs to userId. For a portfolio of another user the call ends as
\* for an id that does not exist: with the same NotFound answer, which is
\* determined by the arguments alone, and without changing any table.
C39_OnlyOwnPortfolio ==
    [][(IsPortfolioAnswer(response') /\ response' # response) =>
          LET portfolioId == response'.args[1]
              userId      == response'.args[2]
          IN  IF portfolioId \in UserPortfolios(userId)
              THEN /\ response'.ok
                   /\ response'.result.id = portfolioId
                   /\ response'.result.userId = userId
              ELSE /\ response' = [Answer("getPortfolioById", response'.args, NoPortfolio)
                                      EXCEPT !.ok = FALSE, !.error = PortfolioNotFound]
                   /\ UNCHANGED <<stocks, transactions, portfolios, positions>>]_vars

\* user u2 has asked for the portfolio of u1, which holds a position, and
\* has got the NotFound answer
C39_Witness ==
    /\ IsPortfolioAnswer(response)
    /\ ~response.ok
    /\ response.args[2] = "u2"
    /\ response.args[1] \in UserPortfolios("u1")
    /\ <<response.args[1], "AAPL">> \in DOMAIN positions

====
